---- MODULE Spec2Model ----
(***************************************************************************)
(* Model of the PicoCalc BLE file-transfer protocol.                       *)
(*   server: MicroPython/sd/py_scripts/PicoBLE.py                          *)
(*   client: MicroPython/Client_Code/PicoCalc_Client_BLE.py                *)
(* Bytes are integers 0..255; a string is the sequence of its character    *)
(* codes; the filesystem is a set of directories and a map from file paths *)
(* to flushed contents.                                                    *)
(***************************************************************************)
EXTENDS Integers, Sequences, FiniteSets, TLC

VARIABLES
    is_connected,        \* PicoBLE.py global
    conn_handle,         \* PicoBLE.py global
    shutdown_requested,  \* PicoBLE.py global
    current_file,        \* <<>> is None, <<p>> is a handle open on the file p
    current_path,        \* PicoBLE.py global
    bytes_received,      \* PicoBLE.py global
    files,               \* filesystem: file path -> flushed content
    dirs,                \* filesystem: the directories
    out,                 \* gatts_notify attempts of the last event, in order
    dbg,                 \* message of the last send_error_response of the event
    attempts,            \* the notify attempts of send_chunked_data in the last event
    tx,                  \* the chunked send under study: its input and its outcome
    air,                 \* notifications delivered to the client, not yet handled
    response_buffer,     \* EnhancedBLEClient.response_buffer
    display,             \* the update_display message of the last event, "" if none
    ble_active,          \* the BLE stack is on (ble.active)
    advertising,         \* the peripheral is advertising (ble.gap_advertise)
    last,                \* the last event and the state it met
    up,                  \* the upload in progress, as the client sent it
    received,            \* the FileData payloads the open session has handled
    normalized,          \* the path normalization under study: input and outcome
    phase,               \* progress along disconnect, connect, FileInfo
    cl,                  \* the client: its operation and where it stands in it
    rx,                  \* frames written to the RX characteristic, not yet handled
    late,                \* notifications that reach the client after the 0.5 s wait
    served               \* what the server did with the frames of the operation

vars == <<is_connected, conn_handle, shutdown_requested, current_file,
          current_path, bytes_received, files, dirs, out, dbg, attempts, display,
          ble_active, advertising, last, up, received, normalized, phase, tx,
          air, response_buffer, cl, rx, late, served>>

clientvars == <<cl, rx, late, served>>

----------------------------------------------------------------------------
(* Program constants *)

CMD_LIST_DIR == 1
CMD_FILE_INFO == 2
CMD_FILE_DATA == 3
CMD_FILE_END == 4
CMD_MKDIR == 5
CMD_DELETE == 6
CMD_DELETE_DIR == 7
MAX_RETRIES == 5
CHUNK_SIZE == 200
STATUS_OK == 0
STATUS_ERROR == 255

\* character codes
SL == 47
NoFile == <<>>
SD == <<47, 115, 100>>
\* "/sd/py_scripts"
DEFAULT_SCRIPT_DIR ==
    <<47, 115, 100, 47, 112, 121, 95, 115, 99, 114, 105, 112, 116, 115>>

----------------------------------------------------------------------------
(* Bounds *)

MaxBytes == 2

----------------------------------------------------------------------------
(* str helpers, as CPython/MicroPython compute them *)

StartsWith(s, pre) ==
    Len(s) >= Len(pre) /\ SubSeq(s, 1, Len(pre)) = pre

HasSlash(s) == \E i \in 1..Len(s) : s[i] = SL

LastSlash(s) ==
    IF HasSlash(s)
    THEN CHOOSE i \in 1..Len(s) :
            s[i] = SL /\ \A j \in (i+1)..Len(s) : s[j] # SL
    ELSE 0

\* path.split('/')[-1]
Basename(s) == SubSeq(s, LastSlash(s) + 1, Len(s))

\* '/'.join(path.split('/')[:-1])
DirPart(s) == SubSeq(s, 1, LastSlash(s) - 1)

RECURSIVE LStrip(_)
\* s.lstrip('/')
LStrip(s) ==
    IF s # <<>> /\ s[1] = SL THEN LStrip(Tail(s)) ELSE s

\* the non-empty parts of s.split('/'), in order
RECURSIVE Parts(_)
Parts(s) ==
    IF s = <<>> THEN <<>>
    ELSE IF s[1] = SL THEN Parts(Tail(s))
    ELSE LET n == IF HasSlash(s)
                  THEN (CHOOSE i \in 1..Len(s) :
                           s[i] = SL /\ \A j \in 1..(i-1) : s[j] # SL) - 1
                  ELSE Len(s)
         IN <<SubSeq(s, 1, n)>> \o Parts(SubSeq(s, n + 1, Len(s)))

\* bytes.decode('utf-8'), for one- and two-byte sequences: a byte below 128
\* is its own code point, a lead byte 194..223 with a continuation byte
\* 128..191 is one code point, anything else raises UnicodeError.
RECURSIVE DecodeOk(_)
DecodeOk(b) ==
    IF b = <<>> THEN TRUE
    ELSE IF b[1] < 128 THEN DecodeOk(Tail(b))
    ELSE IF b[1] >= 194 /\ b[1] <= 223 /\ Len(b) >= 2
            /\ b[2] >= 128 /\ b[2] <= 191
         THEN DecodeOk(SubSeq(b, 3, Len(b)))
    ELSE FALSE

RECURSIVE Decode(_)
Decode(b) ==
    IF b = <<>> THEN <<>>
    ELSE IF b[1] < 128 THEN <<b[1]>> \o Decode(Tail(b))
    ELSE <<(b[1] - 192) * 64 + (b[2] - 128)>> \o Decode(SubSeq(b, 3, Len(b)))

\* str.encode('utf-8'), for code points below 2048
RECURSIVE Encode(_)
Encode(s) ==
    IF s = <<>> THEN <<>>
    ELSE IF s[1] < 128 THEN <<s[1]>> \o Encode(Tail(s))
    ELSE <<192 + (s[1] \div 64), 128 + (s[1] % 64)>> \o Encode(Tail(s))

\* struct.pack("<I", n)
PackLE32(n) ==
    << n % 256, (n \div 256) % 256, (n \div 65536) % 256,
       (n \div 16777216) % 256 >>

----------------------------------------------------------------------------
(* The filesystem (os.stat, os.mkdir, os.remove, open) on the FAT volume *)

IsDir(fs, p) == p \in fs.dirs
IsFile(fs, p) == p \in DOMAIN fs.files
Exists(fs, p) == IsDir(fs, p) \/ IsFile(fs, p)

PutFile(fs, p, content) ==
    [fs EXCEPT !.files = [q \in (DOMAIN fs.files) \cup {p} |->
                             IF q = p THEN content ELSE fs.files[q]]]

DropFile(fs, p) ==
    [fs EXCEPT !.files = [q \in (DOMAIN fs.files) \ {p} |-> fs.files[q]]]

\* os.mkdir(p) succeeds when p is new and its parent is a directory
MkdirOk(fs, p, flt) ==
    /\ "mkdir" \notin flt.fs
    /\ ~Exists(fs, p)
    /\ IsDir(fs, DirPart(p))

\* open(p, "wb") succeeds when p names no directory and its parent is one
OpenOk(fs, p, flt) ==
    /\ "open" \notin flt.fs
    /\ ~IsDir(fs, p)
    /\ Basename(p) # <<>>
    /\ IsDir(fs, DirPart(p))

\* "/" + part1 + "/" + part2 ... for the first k parts
RECURSIVE JoinParts(_, _)
JoinParts(parts, k) ==
    IF k = 0 THEN <<>>
    ELSE JoinParts(parts, k - 1) \o <<SL>> \o parts[k]

\* the loop of ensure_directory_exists from part k on: the filesystem it
\* leaves and whether os.mkdir raised
RECURSIVE EnsureLoop(_, _, _, _)
EnsureLoop(fs, parts, k, flt) ==
    IF k > Len(parts) THEN [fs |-> fs, raised |-> FALSE]
    ELSE LET current == JoinParts(parts, k)
         IN IF current = SD \/ Exists(fs, current)
            THEN EnsureLoop(fs, parts, k + 1, flt)
            ELSE IF MkdirOk(fs, current, flt)
                 THEN EnsureLoop([fs EXCEPT !.dirs = @ \cup {current}],
                                 parts, k + 1, flt)
                 ELSE [fs |-> fs, raised |-> TRUE]

ensure_directory_exists(fs, path, flt) ==
    LET directory_path == DirPart(path)
        rooted == IF StartsWith(directory_path, SD) THEN directory_path
                  ELSE SD \o <<SL>> \o LStrip(directory_path)
    IN IF directory_path = <<>> \/ directory_path = path
       THEN [fs |-> fs, raised |-> FALSE]
       ELSE EnsureLoop(fs, Parts(rooted), 1, flt)

----------------------------------------------------------------------------
(* The server's state as the handlers see it: s.cf, s.cp, s.br are            *)
(* current_file, current_path, bytes_received; s.fs the filesystem; s.out the *)
(* notify attempts so far; s.dbg the last error message.                      *)

\* ble.gatts_notify raises on the attempts the fault pattern marks
NotifyRaises(s, flt) ==
    LET k == Len(s.out) + 1
    IN k <= Len(flt.notify) /\ flt.notify[k]

gatts_notify(s, data, flt) ==
    [s EXCEPT !.out = Append(@, [data |-> data, ok |-> ~NotifyRaises(s, flt)])]

\* cleanup_transfer without "current_file = None"
cleanup_transfer_KeepsHandle(s) ==
    [s EXCEPT !.cp = <<>>, !.br = 0]

\* cleanup_transfer without "bytes_received = 0"
cleanup_transfer_KeepsCount(s) ==
    [s EXCEPT !.cf = NoFile, !.cp = <<>>]

cleanup_transfer(s) ==
    [s EXCEPT !.cf = NoFile, !.cp = <<>>, !.br = 0]

\* send_error_response answering with a fixed opcode instead of the command's
send_error_response_FixedOpcode(s, command, message, flt) ==
    [gatts_notify(s, <<CMD_FILE_INFO, STATUS_ERROR>>, flt)
        EXCEPT !.dbg = message]

send_error_response(s, command, message, flt) ==
    [gatts_notify(s, <<command, STATUS_ERROR>>, flt) EXCEPT !.dbg = message]

\* the destination start_file_transfer computes from the path it is given
TransferPath(path) ==
    LET p1 == IF ~HasSlash(path) \/ StartsWith(path, <<SL>>)
              THEN DEFAULT_SCRIPT_DIR \o <<SL>> \o
                   (IF HasSlash(path) THEN Basename(path) ELSE path)
              ELSE path
    IN IF StartsWith(p1, SD) THEN p1 ELSE SD \o <<SL>> \o LStrip(p1)

\* the check rejecting only a transfer to another path than the open one
TransferInProgress_OtherPath(s, p) == s.cf # NoFile /\ s.cp # p

\* "if current_file:", the check that a transfer is already in progress
TransferInProgress(s, p) == s.cf # NoFile

\* a rejection that also drops the open session and removes what is at the
\* destination
RejectFileInfo_Discarding(s, p, message, flt) ==
    send_error_response(
        cleanup_transfer([s EXCEPT !.fs = DropFile(s.fs, p)]),
        CMD_FILE_INFO, message, flt)

\* "send_error_response(CMD_FILE_INFO, ...); return" of start_file_transfer
\* for the destination p: nothing else is done
RejectFileInfo(s, p, message, flt) ==
    send_error_response(s, CMD_FILE_INFO, message, flt)

\* the except branch of start_file_transfer without its cleanup_transfer()
InfoFailed_NoCleanup(s, flt) ==
    send_error_response(s, CMD_FILE_INFO, "", flt)

\* the except branch of start_file_transfer
InfoFailed(s, flt) ==
    send_error_response(cleanup_transfer(s), CMD_FILE_INFO, "", flt)

start_file_transfer(s, path, flt) ==
    LET p == TransferPath(path)
        \* os.remove of the file found at p; a failure is logged and ignored
        fs1 == IF IsFile(s.fs, p) /\ "remove" \notin flt.fs
               THEN DropFile(s.fs, p) ELSE s.fs
        ens == ensure_directory_exists(fs1, p, flt)
        failed(t) == InfoFailed(t, flt)
    IN IF TransferInProgress(s, p)
       THEN RejectFileInfo(s, p, "Transfer already in progress", flt)
       ELSE IF IsDir(s.fs, p)
       THEN RejectFileInfo(s, p, "Path is a directory", flt)
       ELSE IF ens.raised
       THEN failed([s EXCEPT !.fs = ens.fs])
       ELSE IF ~OpenOk(ens.fs, p, flt)
       THEN failed([s EXCEPT !.fs = ens.fs])
       ELSE LET opened == [s EXCEPT !.fs = PutFile(ens.fs, p, <<>>),
                                    !.cf = <<p>>, !.cp = p, !.br = 0]
                sent == gatts_notify(opened, <<CMD_FILE_INFO, STATUS_OK>>, flt)
            IN IF NotifyRaises(opened, flt) THEN failed(sent)
               ELSE [sent EXCEPT !.display = "Receiving file"]

\* a write that puts the new bytes before the old ones
FileWrite_Prepend(fs, h, data) ==
    IF IsFile(fs, h) THEN PutFile(fs, h, data \o fs.files[h]) ELSE fs

\* current_file.write(data); current_file.flush()
FileWrite(fs, h, data) ==
    IF IsFile(fs, h) THEN PutFile(fs, h, fs.files[h] \o data) ELSE fs

\* the except branch of receive_file_data without its cleanup_transfer()
DataFailed_NoCleanup(s, flt) ==
    send_error_response(s, CMD_FILE_DATA, "", flt)

\* the except branch of receive_file_data
DataFailed(s, flt) ==
    cleanup_transfer(send_error_response(s, CMD_FILE_DATA, "", flt))

receive_file_data(s, data, flt) ==
    LET failed(t) == DataFailed(t, flt)
    IN IF s.cf = NoFile
       THEN send_error_response(s, CMD_FILE_DATA, "", flt)
       ELSE IF "write" \in flt.fs
       THEN failed(s)
       ELSE LET written == [s EXCEPT !.fs = FileWrite(s.fs, s.cf[1], data),
                                     !.br = @ + Len(data)]
                sent == gatts_notify(written, <<CMD_FILE_DATA, STATUS_OK>>, flt)
            IN IF NotifyRaises(written, flt) THEN failed(sent) ELSE sent

\* os.rename(old, new) on the FAT volume: old must be a file, new must not
\* exist and its parent must be a directory
RenameOk(fs, old, new, flt) ==
    /\ "rename" \notin flt.fs
    /\ IsFile(fs, old)
    /\ ~Exists(fs, new)
    /\ Basename(new) # <<>>
    /\ IsDir(fs, DirPart(new))

\* the rename block of end_file_transfer; every exception in it is caught
RenameToOriginal(fs, cp, original_filename_data, flt) ==
    IF ~DecodeOk(original_filename_data) THEN fs
    ELSE LET new_path == DirPart(cp) \o <<SL>> \o
                         Decode(original_filename_data)
             fs1 == IF IsFile(fs, new_path) /\ "remove" \notin flt.fs
                    THEN DropFile(fs, new_path) ELSE fs
         IN IF RenameOk(fs1, cp, new_path, flt)
            THEN DropFile(PutFile(fs1, new_path, fs1.files[cp]), cp)
            ELSE fs1

\* the except branch of end_file_transfer without its cleanup_transfer()
EndFailed_NoCleanup(s, flt) ==
    send_error_response(s, CMD_FILE_END, "", flt)

\* the except branch of end_file_transfer
EndFailed(s, flt) ==
    cleanup_transfer(send_error_response(s, CMD_FILE_END, "", flt))

end_file_transfer(s, original_filename_data, flt) ==
    LET failed(t) == EndFailed(t, flt)
    IN IF s.cf = NoFile
       THEN send_error_response(s, CMD_FILE_END, "", flt)
       ELSE IF "close" \in flt.fs
       THEN failed(s)
       ELSE LET renamed ==
                    IF original_filename_data # <<>>
                    THEN [s EXCEPT !.fs = RenameToOriginal(
                              s.fs, s.cp, original_filename_data, flt)]
                    ELSE s
                sent == gatts_notify(renamed,
                            <<CMD_FILE_END, STATUS_OK>> \o PackLE32(s.br), flt)
            IN IF NotifyRaises(renamed, flt) THEN failed(sent)
               ELSE cleanup_transfer(
                        [sent EXCEPT !.display = "Transfer complete"])

----------------------------------------------------------------------------
(* Directory commands *)

\* "Ensure path starts with /sd" of the directory handlers
Rooted(path) ==
    IF StartsWith(path, SD) THEN path ELSE SD \o <<SL>> \o LStrip(path)

Children(fs, d) ==
    {p \in fs.dirs \cup DOMAIN fs.files : p # d /\ DirPart(p) = d}

\* one fixed order for the entries of a directory, as os.listdir returns one
RECURSIVE SetToSeq(_)
SetToSeq(S) ==
    IF S = {} THEN <<>>
    ELSE LET x == CHOOSE y \in S : \A z \in S : Len(y) <= Len(z)
         IN <<x>> \o SetToSeq(S \ {x})

\* os.listdir(d): the names of the entries
ListNames(fs, d) ==
    LET c == SetToSeq(Children(fs, d))
    IN [i \in 1..Len(c) |-> Basename(c[i])]

\* the retry loop giving up one failure later, "retry_count > MAX_RETRIES"
RECURSIVE SendChunk_OneMore(_, _, _, _, _, _)
SendChunk_OneMore(s, data, chunk_size, i, retry_count, flt) ==
    LET hi == IF i + chunk_size <= Len(data) THEN i + chunk_size ELSE Len(data)
        chunk == SubSeq(data, i + 1, hi)
        raised == NotifyRaises(s, flt)
        t == gatts_notify(s, chunk, flt)
        log(ms) == [t EXCEPT !.attempts =
                       Append(@, [ok |-> ~raised, ms |-> ms,
                                  off |-> i, retry |-> retry_count])]
    IN IF ~raised
       THEN [s |-> log(10), aborted |-> FALSE]
       ELSE IF retry_count + 1 > MAX_RETRIES
            THEN [s |-> log(0), aborted |-> TRUE]
            ELSE SendChunk_OneMore(log(100 * (retry_count + 1)),
                                   data, chunk_size, i, retry_count + 1, flt)

\* the retry loop of send_chunked_data for the chunk at offset i; every
\* gatts_notify attempt is logged with the offset, the retry_count it was made
\* at and the time.sleep_ms that followed it (0 when the send gave up)
RECURSIVE SendChunk(_, _, _, _, _, _)
SendChunk(s, data, chunk_size, i, retry_count, flt) ==
    LET hi == IF i + chunk_size <= Len(data) THEN i + chunk_size ELSE Len(data)
        chunk == SubSeq(data, i + 1, hi)
        raised == NotifyRaises(s, flt)
        t == gatts_notify(s, chunk, flt)
        log(ms) == [t EXCEPT !.attempts =
                       Append(@, [ok |-> ~raised, ms |-> ms,
                                  off |-> i, retry |-> retry_count])]
    IN IF ~raised
       THEN [s |-> log(10), aborted |-> FALSE]
       ELSE IF retry_count + 1 >= MAX_RETRIES
            THEN [s |-> log(0), aborted |-> TRUE]
            ELSE SendChunk(log(100 * (retry_count + 1)),
                           data, chunk_size, i, retry_count + 1, flt)

\* the loop over the chunks with the slice data[i:i+CHUNK_SIZE-1]
RECURSIVE SendFrom_ShortSlice(_, _, _, _, _)
SendFrom_ShortSlice(s, data, chunk_size, i, flt) ==
    IF i >= Len(data) THEN [s |-> s, aborted |-> FALSE]
    ELSE LET r == SendChunk(s, SubSeq(data, 1, i + chunk_size - 1),
                            chunk_size, i, 0, flt)
         IN IF r.aborted THEN r
            ELSE SendFrom_ShortSlice(r.s, data, chunk_size,
                                     i + chunk_size, flt)

\* for i in range(0, len(data), CHUNK_SIZE): the chunks from offset i on
RECURSIVE SendFrom(_, _, _, _, _)
SendFrom(s, data, chunk_size, i, flt) ==
    IF i >= Len(data) THEN [s |-> s, aborted |-> FALSE]
    ELSE LET r == SendChunk(s, data, chunk_size, i, 0, flt)
         IN IF r.aborted THEN r
            ELSE SendFrom(r.s, data, chunk_size, i + chunk_size, flt)

\* send_chunked_data returns None both when it completes and when it gives
\* up; s.aborted records which of the two happened
send_chunked_data(s, data, chunk_size, flt) ==
    LET r == SendFrom(s, data, chunk_size, 0, flt)
    IN [r.s EXCEPT !.ret = "None", !.aborted = r.aborted]

\* list_directory after the response is built: send it in chunks, then
\* update_display("Listed directory: ...")
SendListing(s, response, chunk_size, flt) ==
    [send_chunked_data(s, response, chunk_size, flt)
        EXCEPT !.display = "Listed directory"]

\* the entry records with the entry type the other way round
RECURSIVE EntryBytes_KindSwapped(_, _, _, _)
EntryBytes_KindSwapped(fs, path, names, flt) ==
    IF names = <<>> THEN <<>>
    ELSE LET full_path == path \o <<SL>> \o Head(names)
             rec == IF "stat" \in flt.fs THEN <<>>
                    ELSE <<IF IsDir(fs, full_path) THEN 0 ELSE 1>>
                         \o PackLE32(IF IsFile(fs, full_path)
                                     THEN Len(fs.files[full_path]) ELSE 0)
                         \o Encode(Head(names)) \o <<0>>
         IN rec \o EntryBytes_KindSwapped(fs, path, Tail(names), flt)

\* the entry records of the ListDir response; an entry whose os.stat raises
\* is left out
RECURSIVE EntryBytes(_, _, _, _)
EntryBytes(fs, path, names, flt) ==
    IF names = <<>> THEN <<>>
    ELSE LET full_path == path \o <<SL>> \o Head(names)
             rec == IF "stat" \in flt.fs THEN <<>>
                    ELSE <<IF IsDir(fs, full_path) THEN 1 ELSE 0>>
                         \o PackLE32(IF IsFile(fs, full_path)
                                     THEN Len(fs.files[full_path]) ELSE 0)
                         \o Encode(Head(names)) \o <<0>>
         IN rec \o EntryBytes(fs, path, Tail(names), flt)

\* list_directory answering a missing directory with an empty listing
list_directory_MissingAsEmpty(s, path0, flt) ==
    LET path == Rooted(path0)
        names == IF IsDir(s.fs, path) /\ "listdir" \notin flt.fs
                 THEN ListNames(s.fs, path) ELSE <<>>
        response == <<CMD_LIST_DIR>> \o Encode(path) \o <<0>>
                    \o EntryBytes(s.fs, path, names, flt)
    IN SendListing(s, response, s.chunk, flt)

list_directory(s, path0, flt) ==
    LET path == Rooted(path0)
    IN IF ~IsDir(s.fs, path) \/ "listdir" \in flt.fs
       THEN send_error_response(s, CMD_LIST_DIR, "", flt)
       ELSE LET response == <<CMD_LIST_DIR>> \o Encode(path) \o <<0>>
                            \o EntryBytes(s.fs, path, ListNames(s.fs, path), flt)
            IN SendListing(s, response, s.chunk, flt)

\* make_directory with a plain os.mkdir of the parent: a directory that is
\* already there is an error
make_directory_Exclusive(s, path0, flt) ==
    LET path == Rooted(path0)
        ens == ensure_directory_exists(s.fs, path, flt)
        made == [s EXCEPT !.fs = ens.fs]
        sent == gatts_notify(made, <<CMD_MKDIR, STATUS_OK>>, flt)
    IN IF ens.raised \/ ens.fs = s.fs
       THEN send_error_response(made, CMD_MKDIR, "", flt)
       ELSE IF NotifyRaises(made, flt)
       THEN send_error_response(sent, CMD_MKDIR, "", flt)
       ELSE [sent EXCEPT !.display = "Created directory"]

make_directory(s, path0, flt) ==
    LET path == Rooted(path0)
        ens == ensure_directory_exists(s.fs, path, flt)
        made == [s EXCEPT !.fs = ens.fs]
        sent == gatts_notify(made, <<CMD_MKDIR, STATUS_OK>>, flt)
    IN IF ens.raised THEN send_error_response(made, CMD_MKDIR, "", flt)
       ELSE IF NotifyRaises(made, flt)
       THEN send_error_response(sent, CMD_MKDIR, "", flt)
       ELSE [sent EXCEPT !.display = "Created directory"]

\* delete_file that answers success without os.remove
delete_file_KeepsFile(s, path0, flt) ==
    LET path == Rooted(path0)
        sent == gatts_notify(s, <<CMD_DELETE, STATUS_OK>>, flt)
    IN IF IsDir(s.fs, path)
       THEN send_error_response(s, CMD_DELETE, "Path is a directory", flt)
       ELSE IF ~IsFile(s.fs, path) \/ "stat" \in flt.fs
       THEN send_error_response(s, CMD_DELETE, "File not found", flt)
       ELSE IF "remove" \in flt.fs
       THEN send_error_response(s, CMD_DELETE, "", flt)
       ELSE IF NotifyRaises(s, flt)
       THEN send_error_response(sent, CMD_DELETE, "", flt)
       ELSE [sent EXCEPT !.display = "Deleted file"]

delete_file(s, path0, flt) ==
    LET path == Rooted(path0)
        removed == [s EXCEPT !.fs = DropFile(s.fs, path)]
        sent == gatts_notify(removed, <<CMD_DELETE, STATUS_OK>>, flt)
    IN IF IsDir(s.fs, path)
       THEN send_error_response(s, CMD_DELETE, "Path is a directory", flt)
       ELSE IF ~IsFile(s.fs, path) \/ "stat" \in flt.fs
       THEN send_error_response(s, CMD_DELETE, "File not found", flt)
       ELSE IF "remove" \in flt.fs
       THEN send_error_response(s, CMD_DELETE, "", flt)
       ELSE IF NotifyRaises(removed, flt)
       THEN send_error_response(sent, CMD_DELETE, "", flt)
       ELSE [sent EXCEPT !.display = "Deleted file"]

\* rmdir_recursive(directory) and its loop over os.listdir(directory)
RECURSIVE rmdir_recursive(_, _, _)
RECURSIVE RmEntries(_, _, _, _)
RmEntries(fs, entries, k, flt) ==
    IF k > Len(entries) THEN [fs |-> fs, raised |-> FALSE]
    ELSE LET full_path == entries[k]
         IN IF "stat" \in flt.fs THEN [fs |-> fs, raised |-> TRUE]
            ELSE IF IsDir(fs, full_path)
            THEN LET r == rmdir_recursive(fs, full_path, flt)
                 IN IF r.raised THEN r
                    ELSE RmEntries(r.fs, entries, k + 1, flt)
            ELSE IF "remove" \in flt.fs THEN [fs |-> fs, raised |-> TRUE]
            ELSE RmEntries(DropFile(fs, full_path), entries, k + 1, flt)

rmdir_recursive(fs, directory, flt) ==
    IF ~IsDir(fs, directory) \/ "listdir" \in flt.fs
    THEN [fs |-> fs, raised |-> TRUE]
    ELSE LET r == RmEntries(fs, SetToSeq(Children(fs, directory)), 1, flt)
         IN IF r.raised THEN r
            ELSE IF "rmdir" \in flt.fs \/ directory = SD
                    \/ Children(r.fs, directory) # {}
            THEN [fs |-> r.fs, raised |-> TRUE]
            ELSE [fs |-> [r.fs EXCEPT !.dirs = @ \ {directory}],
                  raised |-> FALSE]

\* delete_directory with a plain os.rmdir: a directory that holds anything
\* is an error
delete_directory_Shallow(s, path0, flt) ==
    LET path == Rooted(path0)
        r == IF Children(s.fs, path) = {}
             THEN rmdir_recursive(s.fs, path, flt)
             ELSE [fs |-> s.fs, raised |-> TRUE]
        removed == [s EXCEPT !.fs = r.fs]
        sent == gatts_notify(removed, <<CMD_DELETE_DIR, STATUS_OK>>, flt)
    IN IF r.raised THEN send_error_response(removed, CMD_DELETE_DIR, "", flt)
       ELSE IF NotifyRaises(removed, flt)
       THEN send_error_response(sent, CMD_DELETE_DIR, "", flt)
       ELSE [sent EXCEPT !.display = "Deleted directory"]

\* delete_directory that reports what it removed before the failure as a
\* success and the failure as an error
delete_directory_PartialSuccess(s, path0, flt) ==
    LET path == Rooted(path0)
        r == rmdir_recursive(s.fs, path, flt)
        removed == [s EXCEPT !.fs = r.fs]
        sent == gatts_notify(removed, <<CMD_DELETE_DIR, STATUS_OK>>, flt)
    IN IF r.raised /\ r.fs = s.fs
       THEN send_error_response(removed, CMD_DELETE_DIR, "", flt)
       ELSE IF r.raised \/ NotifyRaises(removed, flt)
       THEN send_error_response(sent, CMD_DELETE_DIR, "", flt)
       ELSE [sent EXCEPT !.display = "Deleted directory"]

delete_directory(s, path0, flt) ==
    LET path == Rooted(path0)
        r == rmdir_recursive(s.fs, path, flt)
        removed == [s EXCEPT !.fs = r.fs]
        sent == gatts_notify(removed, <<CMD_DELETE_DIR, STATUS_OK>>, flt)
    IN IF r.raised THEN send_error_response(removed, CMD_DELETE_DIR, "", flt)
       ELSE IF NotifyRaises(removed, flt)
       THEN send_error_response(sent, CMD_DELETE_DIR, "", flt)
       ELSE [sent EXCEPT !.display = "Deleted directory"]

----------------------------------------------------------------------------
(* process_command *)

\* what process_command does with a frame: the handler it calls and the
\* argument it passes, "none" when it calls nothing, "raise" when decoding
\* the path raises out of the dispatcher
PathCall(handler, payload) ==
    IF payload = <<>> THEN [handler |-> "none", arg |-> <<>>]
    ELSE IF ~DecodeOk(payload) THEN [handler |-> "raise", arg |-> <<>>]
    ELSE [handler |-> handler, arg |-> Decode(payload)]

Dispatch(data) ==
    LET command == data[1]
        payload == SubSeq(data, 2, Len(data))
    IN IF command = CMD_LIST_DIR
       THEN IF payload = <<>>
            THEN [handler |-> "list_directory", arg |-> DEFAULT_SCRIPT_DIR]
            ELSE PathCall("list_directory", payload)
       ELSE IF command = CMD_FILE_INFO
       THEN PathCall("start_file_transfer", payload)
       ELSE IF command = CMD_FILE_DATA
       THEN IF payload = <<>> THEN [handler |-> "none", arg |-> <<>>]
            ELSE [handler |-> "receive_file_data", arg |-> payload]
       ELSE IF command = CMD_FILE_END
       THEN [handler |-> "end_file_transfer", arg |-> payload]
       ELSE IF command = CMD_MKDIR
       THEN PathCall("make_directory", payload)
       ELSE IF command = CMD_DELETE
       THEN PathCall("delete_file", payload)
       ELSE IF command = CMD_DELETE_DIR
       THEN PathCall("delete_directory", payload)
       ELSE [handler |-> "none", arg |-> <<>>]

\* process_command that rejects an opcode it does not know
process_command_RejectUnknown(s, data, flt) ==
    IF data = <<>> THEN s
    ELSE LET c == Dispatch(data)
         IN CASE c.handler = "list_directory" -> list_directory(s, c.arg, flt)
              [] c.handler = "start_file_transfer" ->
                     start_file_transfer(s, c.arg, flt)
              [] c.handler = "receive_file_data" ->
                     receive_file_data(s, c.arg, flt)
              [] c.handler = "end_file_transfer" ->
                     end_file_transfer(s, c.arg, flt)
              [] c.handler = "make_directory" -> make_directory(s, c.arg, flt)
              [] c.handler = "delete_file" -> delete_file(s, c.arg, flt)
              [] c.handler = "delete_directory" ->
                     delete_directory(s, c.arg, flt)
              [] c.handler = "raise" -> [s EXCEPT !.exc = TRUE]
              [] data[1] \notin 1..7 ->
                     send_error_response(s, data[1], "", flt)
              [] OTHER -> s

process_command(s, data, flt) ==
    IF data = <<>> THEN s
    ELSE LET c == Dispatch(data)
         IN CASE c.handler = "list_directory" -> list_directory(s, c.arg, flt)
              [] c.handler = "start_file_transfer" ->
                     start_file_transfer(s, c.arg, flt)
              [] c.handler = "receive_file_data" ->
                     receive_file_data(s, c.arg, flt)
              [] c.handler = "end_file_transfer" ->
                     end_file_transfer(s, c.arg, flt)
              [] c.handler = "make_directory" -> make_directory(s, c.arg, flt)
              [] c.handler = "delete_file" -> delete_file(s, c.arg, flt)
              [] c.handler = "delete_directory" ->
                     delete_directory(s, c.arg, flt)
              [] c.handler = "raise" -> [s EXCEPT !.exc = TRUE]
              [] OTHER -> s

----------------------------------------------------------------------------
(* Inputs *)

Handles == {64}

NoFault == [fs |-> {}, notify |-> <<>>]

\* the first k notify attempts of the event raise
FirstFail(k) == [i \in 1..k |-> TRUE]

\* the failures that can change what the handler of a call does
FsFaults(handler) ==
    CASE handler = "start_file_transfer" -> {"open", "remove", "mkdir"}
      [] handler = "receive_file_data" -> {"write"}
      [] handler = "end_file_transfer" -> {"close", "rename", "remove"}
      [] handler = "list_directory" -> {"listdir", "stat"}
      [] handler = "make_directory" -> {"mkdir"}
      [] handler = "delete_file" -> {"stat", "remove"}
      [] handler = "delete_directory" -> {"listdir", "stat", "remove", "rmdir"}
      [] OTHER -> {}

NotifyFaults(handler) ==
    CASE handler = "list_directory" -> {0, 1, MAX_RETRIES}
      [] handler \in {"none", "raise"} -> {0}
      [] OTHER -> {0, 1, 2}

Faults(handler) ==
    {[fs |-> {}, notify |-> FirstFail(k)] : k \in NotifyFaults(handler)}
    \cup {[fs |-> {f}, notify |-> <<>>] : f \in FsFaults(handler)}
    \cup {[fs |-> {f}, notify |-> FirstFail(1)] :
             f \in FsFaults(handler) \cap {"rename"}}

\* "a", "b", "d", "d/a", "py_scripts/b"
Name_a == <<97>>
Name_b == <<98>>
Name_d == <<100>>
Name_d_a == <<100, 47, 97>>
Name_scripts_b == <<112, 121, 95, 115, 99, 114, 105, 112, 116, 115, 47, 98>>
\* "/sd/d/b", a destination as upload_file sends it
Name_sd_d_b == <<47, 115, 100, 47, 100, 47, 98>>
\* "py_scripts/a/b": making it makes the directory /sd/py_scripts/a
Name_scripts_a_b ==
    <<112, 121, 95, 115, 99, 114, 105, 112, 116, 115, 47, 97, 47, 98>>
BadUtf8 == <<255>>

DataPayloads == {<<7>>, <<8>>}

Cmd(opcode, payloads) == {[payload |-> x, opcode |-> opcode] : x \in payloads}

\* the commands written to the RX characteristic
Commands ==
    Cmd(0, {<<>>}) \cup Cmd(8, {<<7>>}) \cup Cmd(9, {<<>>}) \cup Cmd(10, {<<>>})
    \cup Cmd(CMD_LIST_DIR, {<<>>, Encode(Name_d), BadUtf8})
    \cup Cmd(CMD_FILE_INFO, {<<>>, Encode(Name_a), Encode(Name_b),
                             Encode(Name_sd_d_b), BadUtf8})
    \cup Cmd(CMD_FILE_DATA, {<<>>} \cup DataPayloads)
    \cup Cmd(CMD_FILE_END, {<<>>, Encode(Name_a), Encode(Name_b), BadUtf8})
    \cup Cmd(CMD_MKDIR, {<<>>, Encode(Name_d_a), Encode(Name_scripts_a_b)})
    \cup Cmd(CMD_DELETE, {<<>>, Encode(Name_scripts_b), Encode(Name_d)})
    \cup Cmd(CMD_DELETE_DIR, {<<>>, Encode(Name_d)})

\* EnhancedBLEClient.send_command: cmd_data = bytearray([command]) + data
cmd_data(c) == <<c.opcode>> \o c.payload

----------------------------------------------------------------------------
(* The server as a state machine: one action per BLE event *)

Root == <<>>

ServerState ==
    [out |-> <<>>, dbg |-> "", attempts |-> <<>>, display |-> "",
     fs |-> [files |-> files, dirs |-> dirs],
     cp |-> current_path, br |-> bytes_received, cf |-> current_file,
     chunk |-> CHUNK_SIZE, aborted |-> FALSE, ret |-> "", exc |-> FALSE]

Install(s) ==
    /\ current_file' = s.cf
    /\ current_path' = s.cp
    /\ bytes_received' = s.br
    /\ files' = s.fs.files
    /\ dirs' = s.fs.dirs
    /\ out' = s.out
    /\ dbg' = s.dbg
    /\ attempts' = s.attempts
    /\ display' = s.display

NoUpload == [path |-> <<>>, data |-> <<>>, st |-> "none"]
NoPath == [path |-> <<>>, handler |-> "none", st |-> "none", into |-> <<>>]
NoCommand == [payload |-> <<>>, opcode |-> 0]
NoSend == [flt |-> NoFault, data |-> <<>>, chunk_size |-> CHUNK_SIZE,
           aborted |-> FALSE, ret |-> "", st |-> "none"]

\* no operation yet
NoResult == [path |-> <<>>, entries |-> <<>>, kind |-> "none"]

\* EnhancedBLEClient before its first operation; writes and responses are the
\* frames send_command wrote and the buffers it returned in the operation
IdleClient ==
    [n |-> 0, arg |-> <<>>, op |-> "none", pc |-> "idle",
     chunks |-> <<>>, writes |-> <<>>, responses |-> <<>>, result |-> NoResult,
     clean |-> TRUE]

NothingSent ==
    [late |-> FALSE, fs |-> {}, aborted |-> FALSE, frames |-> <<>>]

\* the filesystem lets the destination of FileInfo(path) be opened when
\* nothing fails: it is no directory and its parents can be made
Openable(fs, path) ==
    LET p == TransferPath(path)
        ens == ensure_directory_exists(fs, p, NoFault)
    IN ~IsDir(fs, p) /\ ~ens.raised /\ OpenOk(ens.fs, p, NoFault)

Init ==
    /\ is_connected = FALSE
    /\ conn_handle = 0
    /\ shutdown_requested = FALSE
    /\ current_file = NoFile
    /\ current_path = <<>>
    /\ bytes_received = 0
    /\ files = <<>>
    /\ dirs = {Root, SD}
    /\ out = <<>>
    /\ dbg = ""
    /\ attempts = <<>>
    /\ display = "Ready for connection"
    /\ ble_active = TRUE
    /\ advertising = TRUE
    /\ last = [exc |-> FALSE, ev |-> "init", cmd |-> NoCommand,
               had |-> FALSE, fault |-> FALSE,
               openable |-> FALSE, call |-> [handler |-> "none", arg |-> <<>>]]
    /\ up = NoUpload
    /\ received = <<>>
    /\ normalized = NoPath
    /\ phase = "none"
    /\ tx = NoSend
    /\ air = <<>>
    /\ response_buffer = <<>>
    /\ cl = IdleClient
    /\ rx = <<>>
    /\ late = <<>>
    /\ served = NothingSent

Event(ev) ==
    [exc |-> FALSE, ev |-> ev, cmd |-> NoCommand,
     had |-> current_file # NoFile, fault |-> FALSE,
     openable |-> FALSE, call |-> [handler |-> "none", arg |-> <<>>]]

\* a ble_irq that never returns early
IgnoresEvents_Never == FALSE

\* ble_irq: if shutdown_requested: return
IgnoresEvents == shutdown_requested

\* ble_irq returns at once during shutdown
IrqIgnored(ev) ==
    /\ ble_active
    /\ IgnoresEvents
    /\ last' = Event(ev)
    /\ up' = NoUpload
    /\ UNCHANGED <<received, normalized>>
    /\ phase' = "none"
    /\ UNCHANGED <<is_connected, conn_handle, shutdown_requested, current_file,
                   current_path, bytes_received, files, dirs, out, dbg, attempts,
                   display, ble_active, advertising, tx, air, response_buffer>>
    /\ UNCHANGED clientvars

\* ble.gap_advertise(100000, adv_data=...) in the try block of the
\* disconnect branch: the peripheral advertises unless the call raised
gap_advertise(raised) == ~raised

\* a central connects to the advertising peripheral, which ends advertising
IrqCentralConnect ==
    /\ ble_active
    /\ ~IgnoresEvents
    /\ ~is_connected
    /\ advertising
    /\ \E h \in Handles : conn_handle' = h
    /\ is_connected' = TRUE
    /\ advertising' = FALSE
    /\ display' = "Connected"
    /\ out' = <<>>
    /\ dbg' = ""
    /\ attempts' = <<>>
    /\ last' = Event("connect")
    /\ up' = NoUpload
    /\ UNCHANGED <<received, normalized>>
    /\ phase' = IF phase = "disconnected" THEN "reconnected" ELSE "none"
    /\ UNCHANGED <<shutdown_requested, current_file, current_path,
                   bytes_received, files, dirs, ble_active, tx, air,
                   response_buffer>>
    /\ UNCHANGED clientvars

IrqCentralDisconnect ==
    /\ ble_active
    /\ ~IgnoresEvents
    /\ is_connected
    /\ is_connected' = FALSE
    /\ Install([cleanup_transfer(ServerState)
                    EXCEPT !.display = "Disconnected. Ready."])
    /\ \E raised \in BOOLEAN : advertising' = gap_advertise(raised)
    /\ last' = Event("disconnect")
    /\ up' = NoUpload
    /\ received' = <<>>
    /\ UNCHANGED normalized
    /\ phase' = IF current_file # NoFile THEN "disconnected" ELSE "none"
    /\ UNCHANGED <<conn_handle, shutdown_requested, ble_active, tx, air,
                   response_buffer>>
    /\ UNCHANGED clientvars

\* the upload as the client sent it, followed while nothing fails and no
\* other event comes between FileInfo, the FileData commands and FileEnd
NextUpload(c, flt, s) ==
    IF flt # NoFault THEN NoUpload
    ELSE IF c.handler = "start_file_transfer"
    THEN IF current_file = NoFile /\ s.cf # NoFile
         THEN [path |-> s.cp, data |-> <<>>, st |-> "open"]
         ELSE NoUpload
    ELSE IF c.handler = "receive_file_data" /\ up.st = "open"
    THEN [up EXCEPT !.data = @ \o c.arg]
    ELSE IF c.handler = "end_file_transfer" /\ up.st = "open"
    THEN [up EXCEPT !.st = "ended"]
    ELSE NoUpload

\* the FileData payloads receive_file_data was called with since the FileInfo
\* that opened the session, in arrival order; none when no session is open
NextReceived(c, s) ==
    IF s.cf = NoFile THEN <<>>
    ELSE IF current_file = NoFile THEN <<>>
    ELSE IF c.handler = "receive_file_data" THEN Append(received, c.arg)
    ELSE received

\* the number of data bytes in the files of the volume
RECURSIVE SumLen(_, _)
SumLen(f, S) ==
    IF S = {} THEN 0
    ELSE LET p == CHOOSE q \in S : TRUE
         IN Len(f[p]) + SumLen(f, S \ {p})

StoredBytes(f) == SumLen(f, DOMAIN f)

\* where the run stands in the sequences "session open, disconnect,
\* connect, FileInfo" and "session open, FileEnd, FileInfo"
RenameFailed(c, s) ==
    /\ c.arg # <<>>
    /\ ~(/\ DecodeOk(c.arg)
         /\ IsFile(s.fs, DirPart(current_path) \o <<SL>> \o Decode(c.arg))
         /\ ~IsFile(s.fs, current_path))

SendFailed(s) == \E i \in 1..Len(s.out) : ~s.out[i].ok

\* the one notification of a MakeDir that succeeded
MkdirSuccess == <<[data |-> <<CMD_MKDIR, STATUS_OK>>, ok |-> TRUE]>>

\* the paths below a directory, at any depth
Below(d, paths) == {q \in paths : Len(q) > Len(d) /\ StartsWith(q, d \o <<SL>>)}

\* the one notification of a DeleteDir that succeeded
DeleteDirSuccess == <<[data |-> <<CMD_DELETE_DIR, STATUS_OK>>, ok |-> TRUE]>>

\* "FileInfo met an open session", kept while FileData follows, and "the
\* FileEnd of that session succeeded";
\* "a FileData ended the session it met" and "FileData or FileEnd came after
\* that, with no other command between";
\* "DeleteDir answered with success", told apart by whether the tree held a
\* file in a directory of a directory of the one removed; "DeleteDir removed
\* files and then failed";
\* "MakeDir answered with success" and "the same MakeDir again, answered with
\* success" extend the sequences phase follows
NextPhase(c, flt, s) ==
    IF c.handler = "start_file_transfer"
    THEN CASE phase = "reconnected" -> "info_after_reconnect"
           [] phase \in {"end_ok", "end_ok_after_rejection"} ->
                  "info_after_end_ok"
           [] phase = "end_failed" -> "info_after_end_failed"
           [] current_file # NoFile -> "info_rejected"
           [] OTHER -> "none"
    ELSE IF /\ c.handler = "receive_file_data"
            /\ phase = "info_rejected"
            /\ s.cf # NoFile
    THEN "info_rejected"
    ELSE IF /\ c.handler = "receive_file_data"
            /\ current_file # NoFile
            /\ s.cf = NoFile
    THEN "data_failed"
    ELSE IF /\ c.handler \in {"receive_file_data", "end_file_transfer"}
            /\ phase \in {"data_failed", "rejected_after_data_failed"}
            /\ current_file = NoFile
    THEN "rejected_after_data_failed"
    ELSE IF c.handler = "end_file_transfer" /\ current_file # NoFile
    THEN IF RenameFailed(c, s) \/ SendFailed(s) \/ flt # NoFault
         THEN "end_failed"
         ELSE IF phase = "info_rejected" THEN "end_ok_after_rejection"
         ELSE "end_ok"
    ELSE IF c.handler = "make_directory" /\ s.out = MkdirSuccess
    THEN IF phase \in {"mkdir_once", "mkdir_twice"} /\ last.call = c
         THEN "mkdir_twice" ELSE "mkdir_once"
    ELSE IF c.handler = "delete_directory" /\ s.out = DeleteDirSuccess
    THEN IF \E q \in DOMAIN files :
                DirPart(DirPart(q)) \in Below(Rooted(c.arg), dirs)
         THEN "nested_tree_removed" ELSE "tree_removed"
    ELSE IF c.handler = "delete_directory" /\ s.fs.files # files
    THEN "tree_partly_removed"
    ELSE "none"

IrqGattsWrite(cmd, flt) ==
    /\ ble_active
    /\ ~IgnoresEvents
    /\ is_connected
    /\ \E c \in {Dispatch(cmd_data(cmd))} :
       \E s \in {process_command(ServerState, cmd_data(cmd), flt)} :
          /\ c.handler = "receive_file_data"
                => /\ bytes_received + Len(c.arg) <= MaxBytes
                   /\ StoredBytes(files) + Len(c.arg) <= MaxBytes
          /\ Install(s)
          /\ last' = [exc |-> s.exc, ev |-> "write",
                      cmd |-> cmd, had |-> current_file # NoFile,
                      fault |-> flt # NoFault,
                      openable |-> c.handler = "start_file_transfer"
                                   /\ Openable(ServerState.fs, c.arg),
                      call |-> c]
          /\ up' = NextUpload(c, flt, s)
          /\ received' = NextReceived(c, s)
          /\ UNCHANGED normalized
          /\ phase' = NextPhase(c, flt, s)
    /\ UNCHANGED <<is_connected, conn_handle, shutdown_requested, ble_active,
                   advertising,
                   tx, air, response_buffer>>
    /\ UNCHANGED clientvars

\* main(): ESC or an error sets shutdown_requested
RequestShutdown ==
    /\ ble_active
    /\ ~shutdown_requested
    /\ shutdown_requested' = TRUE
    /\ last' = Event("shutdown")
    /\ up' = NoUpload
    /\ UNCHANGED <<received, normalized>>
    /\ phase' = "none"
    /\ UNCHANGED <<is_connected, conn_handle, current_file, current_path,
                   bytes_received, files, dirs, out, dbg, attempts, display,
                   ble_active, advertising, tx, air, response_buffer>>
    /\ UNCHANGED clientvars

\* main(): cleanup_transfer(), gap_disconnect, ble.active(False)
ShutdownSequence ==
    /\ ble_active
    /\ shutdown_requested
    /\ ble_active' = FALSE
    /\ advertising' = FALSE
    /\ Install([cleanup_transfer(ServerState)
                    EXCEPT !.display = "BLE Service Stopped"])
    /\ last' = Event("stopped")
    /\ up' = NoUpload
    /\ received' = <<>>
    /\ UNCHANGED normalized
    /\ phase' = "none"
    /\ UNCHANGED <<is_connected, conn_handle, shutdown_requested, tx, air,
                   response_buffer>>
    /\ UNCHANGED clientvars

Next ==
    \/ IrqCentralConnect
    \/ IrqCentralDisconnect
    \/ \E cmd \in Commands :
          \E flt \in Faults(Dispatch(cmd_data(cmd)).handler) :
              IrqGattsWrite(cmd, flt)
    \/ \E ev \in {"connect", "disconnect", "write"} : IrqIgnored(ev)
    \/ RequestShutdown
    \/ ShutdownSequence

Spec == Init /\ [][Next]_vars

----------------------------------------------------------------------------
(* The chunked send of a response and its reassembly by the client, for any  *)
(* response, any maximum chunk size and any pattern of notify failures       *)

\* all sequences over S of length at most n
RECURSIVE SeqsUpTo(_, _)
SeqsUpTo(S, n) ==
    IF n = 0 THEN {<<>>}
    ELSE LET shorter == SeqsUpTo(S, n - 1)
         IN shorter \cup {Append(q, x) : q \in shorter, x \in S}

MaxLen == 4
MaxChunk == 3
MaxPattern == 6

ResponseBytes == {1, 2}

InitSend ==
    /\ is_connected = TRUE
    /\ conn_handle \in Handles
    /\ shutdown_requested = FALSE
    /\ current_file = NoFile
    /\ current_path = <<>>
    /\ bytes_received = 0
    /\ files = <<>>
    /\ dirs = {Root, SD}
    /\ out = <<>>
    /\ dbg = ""
    /\ attempts = <<>>
    /\ display = "Connected"
    /\ ble_active = TRUE
    /\ advertising = FALSE
    /\ last = [exc |-> FALSE, ev |-> "connect", cmd |-> NoCommand,
               had |-> FALSE, fault |-> FALSE,
               openable |-> FALSE, call |-> [handler |-> "none", arg |-> <<>>]]
    /\ up = NoUpload
    /\ received = <<>>
    /\ normalized = NoPath
    /\ phase = "none"
    /\ \E data \in SeqsUpTo(ResponseBytes, MaxLen), chunk_size \in 1..MaxChunk,
          pattern \in SeqsUpTo(BOOLEAN, MaxPattern) :
          tx = [flt |-> [fs |-> {}, notify |-> pattern], data |-> data,
                chunk_size |-> chunk_size, aborted |-> FALSE,
                ret |-> "", st |-> "ready"]
    /\ air = <<>>
    /\ response_buffer = <<>>
    /\ cl = IdleClient
    /\ rx = <<>>
    /\ late = <<>>
    /\ served = NothingSent

\* the notifications of a log that reached the link, in order
RECURSIVE DeliveredData(_)
DeliveredData(log) ==
    IF log = <<>> THEN <<>>
    ELSE (IF Head(log).ok THEN <<Head(log).data>> ELSE <<>>)
         \o DeliveredData(Tail(log))

\* the server sends the response: list_directory from "Send response in
\* chunks" on
SendResponse ==
    /\ tx.st = "ready"
    /\ LET s == SendListing(ServerState, tx.data, tx.chunk_size, tx.flt)
       IN /\ Install(s)
          /\ tx' = [tx EXCEPT !.st = "sent", !.ret = s.ret,
                              !.aborted = s.aborted]
          /\ air' = DeliveredData(s.out)
    /\ UNCHANGED <<is_connected, conn_handle, shutdown_requested, ble_active,
                   advertising,
                   last, up, received, normalized, phase, response_buffer>>
    /\ UNCHANGED clientvars

\* EnhancedBLEClient.notification_handler, for the next notification
notification_handler ==
    /\ air # <<>>
    /\ response_buffer' = response_buffer \o Head(air)
    /\ air' = Tail(air)
    /\ UNCHANGED <<is_connected, conn_handle, shutdown_requested, current_file,
                   current_path, bytes_received, files, dirs, out, dbg,
                   attempts, display, ble_active,
                   advertising, last, up, received, normalized, phase, tx>>
    /\ UNCHANGED clientvars

NextSend ==
    \/ SendResponse
    \/ notification_handler

SpecSend == InitSend /\ [][NextSend]_vars

----------------------------------------------------------------------------
(* Claims *)

Attempted(i, data) == i <= Len(out) /\ out[i].data = data
Delivered(i, data) == Attempted(i, data) /\ out[i].ok

WriteTo(handler) == last.ev = "write" /\ last.call.handler = handler

\* C1: whenever a transfer session is open, a FileInfo command that reaches
\* start_file_transfer is answered with exactly one response, FileInfo with
\* status 0xFF, whatever its path, the path of the open session included, and
\* the open session stays as it is.
C1_ExclusiveSession ==
    (WriteTo("start_file_transfer") /\ last.had)
        => /\ Len(out) = 1
           /\ Attempted(1, <<CMD_FILE_INFO, STATUS_ERROR>>)
           /\ current_file # NoFile

C1_Witness ==
    /\ WriteTo("start_file_transfer")
    /\ last.had
    /\ TransferPath(last.call.arg) = current_path
    /\ Attempted(1, <<CMD_FILE_INFO, STATUS_ERROR>>)

\* the value of a 4-byte little-endian field
LE32Value(b) == b[1] + 256 * b[2] + 65536 * b[3] + 16777216 * b[4]

\* C2: in an upload FileInfo, FileData d1..dn, FileEnd in which nothing
\* fails, FileInfo and every FileData are answered with success, the file
\* holds d1 \o ... \o dn after each of them, the FileEnd response is success
\* followed by the 4-byte little-endian total length, and after a FileEnd
\* without a rename the destination file holds d1 \o ... \o dn.
C2_FullUpload ==
    /\ up.st = "open"
          => /\ Len(out) = 1
             /\ \/ Delivered(1, <<CMD_FILE_INFO, STATUS_OK>>)
                \/ Delivered(1, <<CMD_FILE_DATA, STATUS_OK>>)
             /\ up.path \in DOMAIN files
             /\ files[up.path] = up.data
             /\ bytes_received = Len(up.data)
    /\ up.st = "ended"
          => /\ Len(out) = 1
             /\ out[1].ok
             /\ Len(out[1].data) = 6
             /\ SubSeq(out[1].data, 1, 2) = <<CMD_FILE_END, STATUS_OK>>
             /\ LE32Value(SubSeq(out[1].data, 3, 6)) = Len(up.data)
             /\ last.call.arg = <<>>
                   => up.path \in DOMAIN files /\ files[up.path] = up.data

C2_Witness ==
    /\ up.st = "ended"
    /\ last.call.arg = <<>>
    /\ Len(up.data) >= 2
    /\ up.data[1] # up.data[2]
    /\ files[up.path] = up.data

\* C3: after a disconnect that met an open session, a connect and then a
\* FileInfo, the FileInfo is never rejected as "Transfer already in progress",
\* and when nothing fails and the destination can be opened it is answered
\* with success and opens a new session on its destination.
C3_DisconnectClearsSession ==
    phase = "info_after_reconnect"
        => /\ dbg # "Transfer already in progress"
           /\ (~last.fault /\ last.openable)
                 => /\ Len(out) = 1
                    /\ Delivered(1, <<CMD_FILE_INFO, STATUS_OK>>)
                    /\ current_file = <<TransferPath(last.call.arg)>>
                    /\ current_path = TransferPath(last.call.arg)
                    /\ bytes_received = 0

C3_Witness ==
    /\ phase = "info_after_reconnect"
    /\ Delivered(1, <<CMD_FILE_INFO, STATUS_OK>>)
    /\ current_file # NoFile

\* C4: whenever the server is disconnected no transfer session is open: the
\* handle is released, the destination path is empty, the counter is zero.
C4_DisconnectedIdle ==
    ~is_connected
        => current_file = NoFile /\ current_path = <<>> /\ bytes_received = 0

C4_Witness ==
    ~is_connected /\ last.ev = "disconnect" /\ last.had

\* C5: a FileData or FileEnd command handled while no session is open is
\* answered with exactly one response, the command's opcode with status 0xFF,
\* opens no session and leaves the filesystem as it was.
C5_NoSessionRejected ==
    [][\A h \in {"receive_file_data", "end_file_transfer"} :
          (last'.ev = "write" /\ last'.call.handler = h /\ ~last'.had)
              => /\ Len(out') = 1
                 /\ out'[1].data = <<last'.cmd.opcode, STATUS_ERROR>>
                 /\ last'.cmd.opcode
                       = (IF h = "receive_file_data" THEN CMD_FILE_DATA
                          ELSE CMD_FILE_END)
                 /\ current_file' = NoFile
                 /\ files' = files
                 /\ dirs' = dirs]_vars

C5_Witness ==
    /\ WriteTo("receive_file_data")
    /\ ~last.had
    /\ Attempted(1, <<CMD_FILE_DATA, STATUS_ERROR>>)
    /\ DOMAIN files # {}

\* C6: after a FileEnd command handled while a session is open no session is
\* open, whether or not the rename or the sending of the response failed, and
\* a FileInfo handled next is never rejected as "Transfer already in
\* progress": when nothing fails in it and its destination can be opened it is
\* answered with success and opens a session.
C6_FileEndDiscards ==
    /\ (WriteTo("end_file_transfer") /\ last.had)
          => current_file = NoFile /\ current_path = <<>> /\ bytes_received = 0
    /\ phase \in {"info_after_end_ok", "info_after_end_failed"}
          => /\ dbg # "Transfer already in progress"
             /\ (~last.fault /\ last.openable)
                   => /\ Delivered(1, <<CMD_FILE_INFO, STATUS_OK>>)
                      /\ current_file # NoFile

C6_Witness ==
    /\ phase = "info_after_end_failed"
    /\ Delivered(1, <<CMD_FILE_INFO, STATUS_OK>>)
    /\ current_file # NoFile

\* the handler of each opcode
HandlerOf(opcode) ==
    CASE opcode = CMD_LIST_DIR -> "list_directory"
      [] opcode = CMD_FILE_INFO -> "start_file_transfer"
      [] opcode = CMD_FILE_DATA -> "receive_file_data"
      [] opcode = CMD_FILE_END -> "end_file_transfer"
      [] opcode = CMD_MKDIR -> "make_directory"
      [] opcode = CMD_DELETE -> "delete_file"
      [] opcode = CMD_DELETE_DIR -> "delete_directory"

PathOpcodes == {CMD_LIST_DIR, CMD_FILE_INFO, CMD_MKDIR, CMD_DELETE,
                CMD_DELETE_DIR}

\* C7: for every command with an opcode in 1..7 and any payload, the empty
\* one included, the dispatcher calls the handler of that opcode with the
\* payload the client encoded (for a path command, with the string whose
\* UTF-8 encoding is that payload).
C7_RoundTripDispatch ==
    (last.ev = "write" /\ last.cmd.opcode \in 1..7)
        => /\ last.call.handler = HandlerOf(last.cmd.opcode)
           /\ IF last.cmd.opcode \in PathOpcodes
              THEN Encode(last.call.arg) = last.cmd.payload
              ELSE last.call.arg = last.cmd.payload

CeilDiv(a, b) == (a + b - 1) \div b

RECURSIVE Flatten(_)
Flatten(seqs) ==
    IF seqs = <<>> THEN <<>> ELSE Head(seqs) \o Flatten(Tail(seqs))

\* C8: for a response of length L and a maximum chunk size S every
\* notification of the chunked send carries between 1 and S bytes; when the
\* send does not give up, the delivered notifications are ceil(L/S) in number
\* and their concatenation in order is the response; the client's buffer
\* followed by the notifications it has not handled yet is always what was
\* delivered, so that it holds the response once all of them are handled.
C8_ChunkReassembly ==
    tx.st = "sent"
        => /\ \A k \in 1..Len(out) :
                 Len(out[k].data) >= 1 /\ Len(out[k].data) <= tx.chunk_size
           /\ response_buffer \o Flatten(air) = Flatten(DeliveredData(out))
           /\ ~tx.aborted
                 => /\ Len(DeliveredData(out))
                          = CeilDiv(Len(tx.data), tx.chunk_size)
                    /\ Flatten(DeliveredData(out)) = tx.data
                    /\ air = <<>> => response_buffer = tx.data

C8_Witness ==
    /\ tx.st = "sent"
    /\ ~tx.aborted
    /\ air = <<>>
    /\ Len(tx.data) = 4
    /\ tx.chunk_size = 3
    /\ tx.data[1] # tx.data[4]
    /\ response_buffer = tx.data

C10_AbortSurfaced ==
    (tx.st = "sent" /\ tx.aborted)
        => tx.ret # "None" /\ display # "Listed directory"

----------------------------------------------------------------------------
(* The client's operations (EnhancedBLEClient) with the server and the link *)

\* asyncio.sleep(0.5) of send_command after the first ListDir notification
COLLECT_MS == 500

\* the chunk size of the server in the runs with the client, scaled down so
\* that the listings of the model's directories span several notifications
ListChunk == 6

\* the result values of the operations: True, False, {} and a listing
ResultTrue == [path |-> <<>>, entries |-> <<>>, kind |-> "True"]
ResultFalse == [path |-> <<>>, entries |-> <<>>, kind |-> "False"]
ResultEmpty == [path |-> <<>>, entries |-> <<>>, kind |-> "empty"]

\* an exception raised in the body of an operation, on its way out
ResultRaised == [path |-> <<>>, entries |-> <<>>, kind |-> "raised"]

\* bytearray.find(0, pos), with indices from 1 and 0 for "not found"
FindZero(r, pos) ==
    IF \E i \in pos..Len(r) : r[i] = 0
    THEN CHOOSE i \in pos..Len(r) :
            r[i] = 0 /\ \A j \in pos..(i - 1) : r[j] # 0
    ELSE 0

\* the "Extract entries" loop of list_directory from position pos on; raised
\* when a name is not UTF-8
RECURSIVE ParseEntries(_, _)
ParseEntries(r, pos) ==
    IF pos > Len(r) \/ pos + 4 >= Len(r)
    THEN [raised |-> FALSE, entries |-> <<>>]
    ELSE LET name_end == FindZero(r, pos + 5)
             name == SubSeq(r, pos + 5, name_end - 1)
         IN IF name_end = 0 THEN [raised |-> FALSE, entries |-> <<>>]
            ELSE IF ~DecodeOk(name) THEN [raised |-> TRUE, entries |-> <<>>]
            ELSE LET entry == [name |-> Decode(name),
                               type |-> IF r[pos] = 1 THEN "directory"
                                        ELSE "file",
                               size |-> LE32Value(SubSeq(r, pos + 1, pos + 4))]
                     rest == ParseEntries(r, name_end + 1)
                 IN [raised |-> rest.raised,
                     entries |-> <<entry>> \o rest.entries]

\* the body of EnhancedBLEClient.list_directory on the response it got: {},
\* a listing, or the UnicodeDecodeError of a path or name that is not UTF-8
ParseListing(response) ==
    IF response = <<>> THEN ResultEmpty
    ELSE IF response[1] # CMD_LIST_DIR THEN ResultEmpty
    ELSE LET path_end == FindZero(response, 2)
             resp_path == SubSeq(response, 2, path_end - 1)
         IN IF path_end = 0 THEN ResultEmpty
            ELSE IF ~DecodeOk(resp_path) THEN ResultRaised
            ELSE LET p == ParseEntries(response, path_end + 1)
                 IN IF p.raised THEN ResultRaised
                    ELSE [path |-> Decode(resp_path), entries |-> p.entries,
                          kind |-> "listing"]

\* "not response or response[0] != command or response[1] != 0" is false; a
\* one-byte response raises IndexError, which the operation turns into False
StepOk(command, response) ==
    /\ Len(response) >= 2
    /\ response[1] = command
    /\ response[2] = 0

\* the IndexError of response[1]: the response is the command byte alone
StepRaises(command, response) ==
    /\ Len(response) = 1
    /\ response[1] = command

\* the check of a response in the body of an operation
StepResult(command, response) ==
    IF StepRaises(command, response) THEN ResultRaised
    ELSE IF StepOk(command, response) THEN ResultTrue
    ELSE ResultFalse

\* an operation that has no "except Exception" around its body
except_Exception_Propagate(op, result) == result

\* "except Exception as e" of an operation: list_directory returns {}, the
\* other operations return False
except_Exception(op, result) ==
    IF result.kind # "raised" THEN result
    ELSE IF op = "list_directory" THEN ResultEmpty
    ELSE ResultFalse

\* send_command up to the write: the frame is written once
send_command(c, command, data) ==
    [c EXCEPT !.writes = Append(@, [payload |-> data, opcode |-> command]),
              !.pc = "wait"]

\* the operation returns: the result of its body, or of its except clause
Finish(c, result) ==
    [c EXCEPT !.pc = "returned", !.result = except_Exception(c.op, result)]

LastCommand(c) == c.writes[Len(c.writes)].opcode

\* upload_file going on to the next command whatever the response was
upload_file_NoCheck(c, response) ==
    IF LastCommand(c) = CMD_FILE_END
    THEN Finish(c, StepResult(CMD_FILE_END, response))
    ELSE IF c.chunks # <<>>
    THEN send_command([c EXCEPT !.chunks = Tail(@)],
                      CMD_FILE_DATA, Head(c.chunks))
    ELSE send_command(c, CMD_FILE_END, <<>>)

\* upload_file from the return of a send_command on
upload_file(c, response) ==
    IF ~StepOk(LastCommand(c), response)
    THEN Finish(c, StepResult(LastCommand(c), response))
    ELSE IF LastCommand(c) = CMD_FILE_END THEN Finish(c, ResultTrue)
    ELSE IF c.chunks # <<>>
    THEN send_command([c EXCEPT !.chunks = Tail(@)],
                      CMD_FILE_DATA, Head(c.chunks))
    ELSE send_command(c, CMD_FILE_END, <<>>)

\* an operation that writes its command a second time after a timeout
Returned_Resend(c, response) ==
    LET c1 == [c EXCEPT !.responses = Append(@, response)]
    IN IF response = <<>> /\ Len(c.writes) = 1
       THEN send_command(c1, c.writes[1].opcode, c.writes[1].payload)
       ELSE IF c.op = "list_directory"
       THEN Finish(c1, ParseListing(response))
       ELSE IF c.op = "upload_file" THEN upload_file(c1, response)
       ELSE Finish(c1, StepResult(LastCommand(c), response))

\* the operation from the return of send_command with this response on: it
\* ends with a result or sends its next command
Returned(c, response) ==
    LET c1 == [c EXCEPT !.responses = Append(@, response)]
    IN IF c.op = "list_directory" THEN Finish(c1, ParseListing(response))
       ELSE IF c.op = "upload_file" THEN upload_file(c1, response)
       ELSE Finish(c1, StepResult(LastCommand(c), response))

\* the first command of an operation
FirstCommand(op, arg) ==
    CASE op = "list_directory" ->
             [payload |-> Encode(arg), opcode |-> CMD_LIST_DIR]
      [] op = "upload_file" ->
             [payload |-> Encode(SD \o <<SL>> \o arg),
              opcode |-> CMD_FILE_INFO]
      [] op = "make_directory" ->
             [payload |-> Encode(arg), opcode |-> CMD_MKDIR]
      [] op = "delete_file" ->
             [payload |-> Encode(arg), opcode |-> CMD_DELETE]
      [] op = "delete_directory" ->
             [payload |-> Encode(arg), opcode |-> CMD_DELETE_DIR]

\* the time, from the first attempt of the event on, at which attempt k is
\* made: the sleeps of send_chunked_data before it
RECURSIVE SentAt(_, _)
SentAt(s, k) ==
    IF k <= 1 \/ Len(s.attempts) # Len(s.out) THEN 0
    ELSE SentAt(s, k - 1) + s.attempts[k - 1].ms

FirstDelivered(s) ==
    IF \E k \in 1..Len(s.out) : s.out[k].ok
    THEN CHOOSE k \in 1..Len(s.out) :
            s.out[k].ok /\ \A j \in 1..(k - 1) : ~s.out[j].ok
    ELSE 0

\* notification k reaches the client within the 0.5 s that send_command
\* sleeps after the first notification
InWindow(s, k) ==
    SentAt(s, k) - SentAt(s, FirstDelivered(s)) <= COLLECT_MS

\* the delivered notifications from attempt k on that are (timely = TRUE) or
\* are not (timely = FALSE) within the window
RECURSIVE Notifications(_, _, _)
Notifications(s, k, timely) ==
    IF k > Len(s.out) THEN <<>>
    ELSE (IF s.out[k].ok /\ InWindow(s, k) = timely
          THEN <<s.out[k].data>> ELSE <<>>)
         \o Notifications(s, k + 1, timely)

\* the number of operations of a run
MaxOperations == 3

\* the volume when the client connects: empty, or with the directories d,
\* py_scripts and py_scripts/a and the one-byte file py_scripts/b
ClientVolumes ==
    {[files |-> <<>>, dirs |-> {Root, SD}],
     [files |-> [q \in {DEFAULT_SCRIPT_DIR \o <<SL>> \o Name_b} |-> <<7>>],
      dirs |-> {Root, SD, SD \o <<SL>> \o Name_d, DEFAULT_SCRIPT_DIR,
                DEFAULT_SCRIPT_DIR \o <<SL>> \o Name_a}]}

\* the operations the user starts and their arguments
ClientOperations ==
    {[arg |-> a, op |-> "list_directory", chunks |-> <<>>] :
        a \in {SD, DEFAULT_SCRIPT_DIR, Name_d}}
    \cup {[arg |-> Name_b, op |-> "upload_file", chunks |-> ch] :
             ch \in {<<>>, << <<7>> >>, << <<7>>, <<8>> >>}}
    \cup {[arg |-> a, op |-> "make_directory", chunks |-> <<>>] :
             a \in {Name_d, Name_d_a}}
    \cup {[arg |-> Name_scripts_b, op |-> "delete_file", chunks |-> <<>>]}
    \cup {[arg |-> Name_d, op |-> "delete_directory", chunks |-> <<>>]}

\* notify failures while a listing is sent: none, every attempt of the first
\* chunk, three attempts of the second chunk, every attempt of the third
ListingFaults ==
    {[fs |-> {}, notify |-> pat] :
        pat \in {<<>>, FirstFail(MAX_RETRIES),
                 <<FALSE, TRUE, TRUE, TRUE>>,
                 <<FALSE, FALSE, TRUE, TRUE, TRUE, TRUE, TRUE>>}}
    \cup {[fs |-> {f}, notify |-> <<>>] : f \in {"listdir", "stat"}}

ClientFaults(handler) ==
    IF handler = "list_directory" THEN ListingFaults
    ELSE {[fs |-> {}, notify |-> FirstFail(k)] : k \in {0, 1, 2}}
         \cup {[fs |-> {f}, notify |-> <<>>] :
                  f \in FsFaults(handler) \cap {"open", "write", "mkdir",
                                                "remove", "rmdir"}}

InitClient ==
    /\ is_connected = TRUE
    /\ conn_handle \in Handles
    /\ shutdown_requested = FALSE
    /\ current_file = NoFile
    /\ current_path = <<>>
    /\ bytes_received = 0
    /\ \E v \in ClientVolumes : files = v.files /\ dirs = v.dirs
    /\ out = <<>>
    /\ dbg = ""
    /\ attempts = <<>>
    /\ display = "Connected"
    /\ ble_active = TRUE
    /\ advertising = FALSE
    /\ last = [exc |-> FALSE, ev |-> "connect", cmd |-> NoCommand,
               had |-> FALSE, fault |-> FALSE,
               openable |-> FALSE, call |-> [handler |-> "none", arg |-> <<>>]]
    /\ up = NoUpload
    /\ received = <<>>
    /\ normalized = NoPath
    /\ phase = "none"
    /\ tx = NoSend
    /\ air = <<>>
    /\ response_buffer = <<>>
    /\ cl = IdleClient
    /\ rx = <<>>
    /\ late = <<>>
    /\ served = NothingSent

\* the user starts an operation; the operation runs up to the write of its
\* first command in send_command
StartOperation(o) ==
    /\ cl.pc \in {"idle", "returned"}
    /\ cl.n < MaxOperations
    /\ rx = <<>>
    /\ LET first == FirstCommand(o.op, o.arg)
           c0 == [IdleClient EXCEPT !.op = o.op, !.arg = o.arg,
                                    !.chunks = o.chunks,
                                    !.clean = (air = <<>>),
                                    !.n = cl.n + 1]
       IN /\ cl' = send_command(c0, first.opcode, first.payload)
          /\ rx' = <<first>>
    /\ response_buffer' = <<>>
    /\ served' = NothingSent
    /\ UNCHANGED <<is_connected, conn_handle, shutdown_requested, current_file,
                   current_path, bytes_received, files, dirs, out, dbg,
                   attempts, display, ble_active,
                   advertising, last, up, received, normalized, phase, tx, air,
                   late>>

\* ble_irq with _IRQ_GATTS_WRITE for the frame the client wrote; the
\* notifications that were delivered are on their way to the client
ServeWrite(flt) ==
    /\ rx # <<>>
    /\ \E c \in {Dispatch(cmd_data(Head(rx)))} :
       \E s \in {process_command([ServerState EXCEPT !.chunk = ListChunk],
                                  cmd_data(Head(rx)), flt)} :
          /\ c.handler = "receive_file_data"
                => /\ bytes_received + Len(c.arg) <= MaxBytes
                   /\ StoredBytes(files) + Len(c.arg) <= MaxBytes
          /\ Install(s)
          /\ received' = NextReceived(c, s)
          /\ UNCHANGED normalized
          /\ air' = air \o Notifications(s, 1, TRUE)
          /\ late' = Notifications(s, 1, FALSE)
          /\ served' = [late |-> Notifications(s, 1, FALSE) # <<>>,
                        fs |-> flt.fs,
                        aborted |-> s.aborted,
                        frames |-> Append(served.frames, Head(rx))]
    /\ rx' = Tail(rx)
    /\ UNCHANGED <<is_connected, conn_handle, shutdown_requested, ble_active,
                   advertising,
                   last, up, phase, tx, response_buffer, cl>>

\* send_command returns this response to the operation, which ends or writes
\* its next command; what the server sent too late for this command is still
\* on its way
Return(response) ==
    LET c == Returned(cl, response)
    IN /\ cl' = c
       /\ air' = air \o late
       /\ late' = <<>>
       /\ IF c.pc = "wait"
          THEN /\ rx' = <<c.writes[Len(c.writes)]>>
               /\ response_buffer' = <<>>
          ELSE UNCHANGED <<rx, response_buffer>>
       /\ UNCHANGED <<is_connected, conn_handle, shutdown_requested,
                      current_file, current_path, bytes_received, files, dirs,
                      out, dbg, attempts, display, ble_active,
                      advertising, last, up, received, normalized,
                      phase, tx, served>>

\* response_event is set: send_command returns the buffer, ...
ResponseEvent ==
    /\ cl.pc = "wait"
    /\ rx = <<>>
    /\ response_buffer # <<>>
    /\ LastCommand(cl) # CMD_LIST_DIR
    /\ Return(response_buffer)

\* ... or for ListDir sleeps 0.5 s first
CollectStart ==
    /\ cl.pc = "wait"
    /\ rx = <<>>
    /\ response_buffer # <<>>
    /\ LastCommand(cl) = CMD_LIST_DIR
    /\ cl' = [cl EXCEPT !.pc = "collect"]
    /\ UNCHANGED <<is_connected, conn_handle, shutdown_requested, current_file,
                   current_path, bytes_received, files, dirs, out, dbg,
                   attempts, display, ble_active,
                   advertising, last, up, received, normalized, phase, tx, air,
                   response_buffer, rx, late, served>>

\* the 0.5 s are over: every notification sent within them has been handled
CollectDone ==
    /\ cl.pc = "collect"
    /\ air = <<>>
    /\ Return(response_buffer)

\* asyncio.TimeoutError: no notification came; send_command returns bytearray()
Timeout ==
    /\ cl.pc = "wait"
    /\ rx = <<>>
    /\ air = <<>>
    /\ response_buffer = <<>>
    /\ Return(<<>>)

NextClient ==
    \/ \E o \in ClientOperations : StartOperation(o)
    \/ /\ rx # <<>>
       /\ \E flt \in ClientFaults(Dispatch(cmd_data(Head(rx))).handler) :
             ServeWrite(flt)
    \/ notification_handler
    \/ ResponseEvent
    \/ CollectStart
    \/ CollectDone
    \/ Timeout

SpecClient == InitClient /\ [][NextClient]_vars

----------------------------------------------------------------------------
(* Claims about the client's operations *)

\* C11: in every operation at most one command awaits its response, and the
\* server has handled the frames of the operation in the order they were
\* written; in upload_file a FileData (and the FileEnd) is written only after
\* send_command returned a success response for the command before it, and
\* after a timeout or any other response nothing more is written.
C11_StopAndWait ==
    /\ Len(rx) <= 1
    /\ Len(cl.writes) - Len(cl.responses) \in {0, 1}
    /\ (Len(cl.writes) > Len(cl.responses)) = (cl.pc \in {"wait", "collect"})
    /\ Len(served.frames) + Len(rx) = Len(cl.writes)
    /\ served.frames = SubSeq(cl.writes, 1, Len(served.frames))
    /\ cl.op = "upload_file"
          => /\ \A k \in 2..Len(cl.writes) :
                   /\ cl.writes[k].opcode \in {CMD_FILE_DATA, CMD_FILE_END}
                   /\ k - 1 <= Len(cl.responses)
                   /\ StepOk(cl.writes[k - 1].opcode, cl.responses[k - 1])
             /\ \A k \in 1..Len(cl.responses) :
                   ~StepOk(cl.writes[k].opcode, cl.responses[k])
                      => Len(cl.writes) = k /\ cl.pc = "returned"

C11_Witness ==
    /\ cl.op = "upload_file"
    /\ cl.pc = "wait"
    /\ Len(cl.writes) = 3
    /\ cl.writes[2].opcode = CMD_FILE_DATA
    /\ cl.writes[3].opcode = CMD_FILE_DATA
    /\ cl.responses = << <<CMD_FILE_INFO, STATUS_OK>>,
                         <<CMD_FILE_DATA, STATUS_OK>> >>
    /\ rx = <<>>
    /\ served.frames = cl.writes

\* C12: when send_command times out (it returns the empty buffer), the
\* operation ends with a failure value, and the command that timed out is
\* the last frame the operation wrote: it was written once and the server got
\* it once.
C12_NoResend ==
    \A k \in 1..Len(cl.responses) :
        cl.responses[k] = <<>>
            => /\ cl.pc = "returned"
               /\ cl.result \in {ResultFalse, ResultEmpty}
               /\ Len(cl.writes) = k
               /\ Len(served.frames) = k

C12_Witness ==
    /\ cl.op = "make_directory"
    /\ cl.pc = "returned"
    /\ cl.responses = << <<>> >>
    /\ Len(cl.writes) = 1
    /\ served.frames = cl.writes
    /\ cl.result = ResultFalse

\* C13: an operation reports success (True, or a listing) only when every
\* response send_command returned in it has the opcode of its command as
\* first byte and the status Ok as second byte.
C13_SuccessNeedsOkStatus ==
    (cl.pc = "returned" /\ cl.result.kind \in {"True", "listing"})
        => \A k \in 1..Len(cl.responses) :
              /\ Len(cl.responses[k]) >= 2
              /\ cl.responses[k][1] = cl.writes[k].opcode
              /\ cl.responses[k][2] = STATUS_OK

\* C14: every response the server sends for a command starts with the
\* opcode of the command followed by a status byte, 0 or 0xFF, a successful
\* ListDir included.
C14_ResponseHeader ==
    (last.ev = "write" /\ last.cmd.opcode \in 1..7)
        => \A k \in 1..Len(out) :
              /\ Len(out[k].data) >= 2
              /\ out[k].data[1] = last.cmd.opcode
              /\ out[k].data[2] \in {STATUS_OK, STATUS_ERROR}

\* the entries of a directory as the filesystem gives them: name, kind and
\* size (0 for a directory)
FsEntries(fs, d) ==
    LET names == ListNames(fs, d)
    IN [i \in 1..Len(names) |->
           LET full_path == d \o <<SL>> \o names[i]
           IN [name |-> names[i],
               type |-> IF IsDir(fs, full_path) THEN "directory" ELSE "file",
               size |-> IF IsFile(fs, full_path)
                        THEN Len(fs.files[full_path]) ELSE 0]]

Volume == [files |-> files, dirs |-> dirs]

ListedDir == Rooted(cl.arg)

ListReturned == cl.op = "list_directory" /\ cl.pc = "returned"

\* C15: when list_directory gets the whole response of the server for a
\* directory whose entries could all be read, what it returns is a listing
\* of the resolved path with exactly the entries of the directory, in the
\* order of the filesystem, each with its name, kind and size.
C15_ListingDecoded ==
    (/\ ListReturned
     /\ IsDir(Volume, ListedDir)
     /\ served.fs = {}
     /\ ~served.aborted
     /\ cl.responses[1] = Flatten(DeliveredData(out)))
        => /\ cl.result.kind = "listing"
           /\ cl.result.path = ListedDir
           /\ cl.result.entries = FsEntries(Volume, ListedDir)

C15_Witness ==
    /\ ListReturned
    /\ served.fs = {}
    /\ ~served.aborted
    /\ cl.responses[1] = Flatten(DeliveredData(out))
    /\ Len(DeliveredData(out)) >= 3
    /\ Len(cl.result.entries) = 2
    /\ \E i \in 1..2 : cl.result.entries[i].type = "directory"
    /\ \E i \in 1..2 : /\ cl.result.entries[i].type = "file"
                        /\ cl.result.entries[i].size = 1

\* C16: a listing that list_directory returns has every entry the server
\* put into the response, whatever the delays between the notifications and
\* whether or not the server gave up the send (no notification of an earlier
\* command being on its way when the operation started).
C16_ListingComplete ==
    (/\ ListReturned
     /\ cl.clean
     /\ served.fs = {}
     /\ cl.result.kind = "listing")
        => cl.result.entries = FsEntries(Volume, ListedDir)

\* C17: a ListDir for a directory that is missing or cannot be read is
\* answered with the one response <<ListDir, 0xFF>>, and list_directory,
\* given what the server delivered as its response (the error response, or
\* nothing when the notification failed), returns {}.
C17_MissingDirectory ==
    (/\ ListReturned
     /\ ~IsDir(Volume, ListedDir) \/ "listdir" \in served.fs)
        => /\ Len(out) = 1
           /\ out[1].data = <<CMD_LIST_DIR, STATUS_ERROR>>
           /\ cl.responses[1] = Flatten(DeliveredData(out))
                 => cl.result = ResultEmpty

C17_Witness ==
    /\ ListReturned
    /\ ~IsDir(Volume, ListedDir)
    /\ out = <<[data |-> <<CMD_LIST_DIR, STATUS_ERROR>>, ok |-> TRUE]>>
    /\ cl.responses = << <<CMD_LIST_DIR, STATUS_ERROR>> >>
    /\ cl.result = ResultEmpty
    /\ cl.responses = << <<CMD_LIST_DIR, STATUS_ERROR>> >>
    /\ cl.result = ResultEmpty

----------------------------------------------------------------------------
(* MakeDir and Delete *)

\* the step is the handling of a write that dispatches to the handler, with
\* no failure of the filesystem or of gatts_notify during it
Handled(handler) ==
    /\ last'.ev = "write"
    /\ last'.call.handler = handler
    /\ ~last'.fault

\* C18: when MakeDir(path) was answered with success and the same MakeDir is
\* handled again right after it, the second one is answered with success too
\* and leaves files and directories as the first one left them
C18_MakeDirIdempotent ==
    [][(/\ phase \in {"mkdir_once", "mkdir_twice"}
        /\ Handled("make_directory")
        /\ last'.call = last.call)
          => /\ out' = MkdirSuccess
             /\ phase' = "mkdir_twice"
             /\ files' = files
             /\ dirs' = dirs]_vars

\* C18 witness: MakeDir("d/a") handled twice in a row, both answered with
\* success, /sd/d made by the first
C18_Witness ==
    /\ phase = "mkdir_twice"
    /\ ~last.fault
    /\ last.call.arg = Name_d_a
    /\ out = MkdirSuccess
    /\ IsDir([files |-> files, dirs |-> dirs], SD \o <<SL>> \o Name_d)

\* C19: after MakeDir(path) is answered with success, for a path that ends
\* in a name, the normalized path itself is a directory
C19_DirectoryMade ==
    (/\ WriteTo("make_directory")
     /\ Basename(Rooted(last.call.arg)) # <<>>
     /\ out = MkdirSuccess)
        => IsDir([files |-> files, dirs |-> dirs], Rooted(last.call.arg))

\* C20: Delete(path) of a path that is missing or a directory is answered
\* with an error and changes no file and no directory; Delete(path) of a file
\* removes exactly that file and is answered with success
C20_DeleteContract ==
    [][Handled("delete_file")
          => LET fs == [files |-> files, dirs |-> dirs]
                 path == Rooted(last'.call.arg)
             IN /\ dirs' = dirs
                /\ IF IsFile(fs, path) /\ ~IsDir(fs, path)
                   THEN /\ out' = <<[data |-> <<CMD_DELETE, STATUS_OK>>,
                                     ok |-> TRUE]>>
                        /\ files' = DropFile(fs, path).files
                        /\ path \notin DOMAIN files'
                   ELSE /\ out' = <<[data |-> <<CMD_DELETE, STATUS_ERROR>>,
                                     ok |-> TRUE]>>
                        /\ files' = files]_vars

\* C20 witness: Delete("d") was answered with an error while /sd/d is a
\* directory, and py_scripts/b is a file a Delete can remove
C20_Witness ==
    /\ WriteTo("delete_file")
    /\ ~last.fault
    /\ last.call.arg = Name_d
    /\ IsDir([files |-> files, dirs |-> dirs], SD \o <<SL>> \o Name_d)
    /\ IsFile([files |-> files, dirs |-> dirs],
              DEFAULT_SCRIPT_DIR \o <<SL>> \o Name_b)
    /\ out = <<[data |-> <<CMD_DELETE, STATUS_ERROR>>, ok |-> TRUE]>>

----------------------------------------------------------------------------
(* DeleteDir on directory trees: a connected server whose volume holds any   *)
(* tree below /sd/t, up to three directories deep, handling DeleteDir frames *)

\* "t", "t/u", "t/u/v", "x"
Name_t == <<116>>
Name_t_u == <<116, 47, 117>>
Name_t_u_v == <<116, 47, 117, 47, 118>>
Name_x == <<120>>

Under(d, name) == d \o <<SL>> \o name

Dir_t == Under(SD, Name_t)
Dir_u == Under(Dir_t, <<117>>)
Dir_v == Under(Dir_u, <<118>>)

TreeDirs == {Dir_t, Dir_u, Dir_v}
TreeFiles == {Under(SD, Name_x), Under(Dir_t, <<102>>), Under(Dir_u, <<103>>),
              Under(Dir_v, <<104>>)}

\* every volume whose directories and files each lie in a directory
TreeVolumes ==
    {[files |-> [q \in F |-> <<7>>], dirs |-> {Root, SD} \cup D] :
        <<D, F>> \in {<<D, F>> \in (SUBSET TreeDirs) \X (SUBSET TreeFiles) :
                         \A q \in D \cup F : DirPart(q) \in D \cup {SD}}}

TreeCommands ==
    Cmd(CMD_DELETE_DIR, {Encode(Name_t), Encode(Name_t_u),
                         Encode(Name_t_u_v), Encode(Name_x)})

\* no failure, or one kind of filesystem call of rmdir_recursive raising
TreeFaults ==
    {NoFault} \cup {[fs |-> {f}, notify |-> <<>>] :
                       f \in FsFaults("delete_directory")}

InitTree ==
    /\ is_connected = TRUE
    /\ conn_handle \in Handles
    /\ shutdown_requested = FALSE
    /\ current_file = NoFile
    /\ current_path = <<>>
    /\ bytes_received = 0
    /\ \E v \in TreeVolumes : files = v.files /\ dirs = v.dirs
    /\ out = <<>>
    /\ dbg = ""
    /\ attempts = <<>>
    /\ display = "Connected"
    /\ ble_active = TRUE
    /\ advertising = FALSE
    /\ last = [exc |-> FALSE, ev |-> "connect", cmd |-> NoCommand,
               had |-> FALSE, fault |-> FALSE,
               openable |-> FALSE, call |-> [handler |-> "none", arg |-> <<>>]]
    /\ up = NoUpload
    /\ received = <<>>
    /\ normalized = NoPath
    /\ phase = "none"
    /\ tx = NoSend
    /\ air = <<>>
    /\ response_buffer = <<>>
    /\ cl = IdleClient
    /\ rx = <<>>
    /\ late = <<>>
    /\ served = NothingSent

NextTree ==
    \E cmd \in TreeCommands : \E flt \in TreeFaults : IrqGattsWrite(cmd, flt)

SpecTree == InitTree /\ [][NextTree]_vars

DeleteDirError == <<[data |-> <<CMD_DELETE_DIR, STATUS_ERROR>>, ok |-> TRUE]>>

\* C21: DeleteDir(path) of a directory below /sd, handled with no failure,
\* removes every file and directory below path and path itself, nothing
\* else, and is answered with success; the listing of the parent has no
\* entry of that name afterwards
C21_DeleteDirRemovesTree ==
    [][LET path == Rooted(last'.call.arg)
       IN (Handled("delete_directory") /\ IsDir(Volume, path) /\ path # SD)
             => /\ out' = DeleteDirSuccess
                /\ dirs' = dirs \ ({path} \cup Below(path, dirs))
                /\ DOMAIN files' = DOMAIN files \ Below(path, DOMAIN files)
                /\ \A q \in DOMAIN files' : files'[q] = files[q]
                /\ \A i \in DOMAIN FsEntries(Volume', DirPart(path)) :
                       FsEntries(Volume', DirPart(path))[i].name
                           # Basename(path)]_vars

\* C21 witness: DeleteDir("t") was answered with success; before it /sd/t
\* held a file, and a directory holding a file and a directory with a file
C21_Witness ==
    /\ WriteTo("delete_directory")
    /\ phase = "nested_tree_removed"
    /\ ~last.fault
    /\ last.call.arg = Name_t
    /\ out = DeleteDirSuccess
    /\ dirs = {Root, SD}
    /\ DOMAIN files = {Under(SD, Name_x)}

\* C22: when a call of rmdir_recursive raises, whatever was removed before
\* it, the command is answered with one notification, DeleteDir with status
\* 0xFF, and with no other
C22_SingleError ==
    [][\A flt \in TreeFaults :
          LET r == rmdir_recursive(Volume, Rooted(last'.call.arg), flt)
          IN (/\ last'.ev = "write"
              /\ last'.call.handler = "delete_directory"
              /\ r.raised
              /\ Volume' = r.fs)
                => out' = DeleteDirError]_vars

\* C22 witness: DeleteDir("t") failed at os.rmdir after the files of the
\* tree were removed: the answer is the error and the directories are left
C22_Witness ==
    /\ WriteTo("delete_directory")
    /\ phase = "tree_partly_removed"
    /\ last.fault
    /\ last.call.arg = Name_t
    /\ out = DeleteDirError
    /\ DOMAIN files \subseteq {Under(SD, Name_x)}
    /\ dirs = {Root, SD} \cup TreeDirs

----------------------------------------------------------------------------
(* Frames the dispatcher does not turn into a call *)

\* C23: a write whose first byte is none of the opcodes 1..7 gets no
\* notification and leaves the session, the connection and the filesystem
\* as they were
C23_UnknownIgnored ==
    [][(/\ last'.ev = "write"
        /\ last'.cmd.opcode \notin 1..7)
          => /\ IF shutdown_requested THEN out' = out ELSE out' = <<>>
             /\ last'.call.handler = "none"
             /\ UNCHANGED <<current_file, current_path, bytes_received,
                            files, dirs, is_connected, conn_handle,
                            shutdown_requested, ble_active>>]_vars

\* C23 witness: the reserved opcode 8 was written with a payload while a
\* session was open with bytes received; the session is still open
C23_Witness ==
    /\ last.ev = "write"
    /\ last.cmd.opcode = 8
    /\ last.cmd.payload # <<>>
    /\ is_connected
    /\ current_file # NoFile
    /\ bytes_received > 0
    /\ out = <<>>

\* C24: a FileInfo, FileData, MakeDir, Delete or DeleteDir frame with an
\* empty payload, or with a path that is not UTF-8, is answered with one
\* notification: its opcode with status 0xFF
C24_MalformedRejected ==
    (/\ last.ev = "write"
     /\ last.cmd.opcode \in {CMD_FILE_INFO, CMD_FILE_DATA, CMD_MKDIR,
                              CMD_DELETE, CMD_DELETE_DIR}
     /\ ~last.fault
     /\ \/ last.cmd.payload = <<>>
        \/ last.cmd.opcode # CMD_FILE_DATA /\ ~DecodeOk(last.cmd.payload))
        => out = <<[data |-> <<last.cmd.opcode, STATUS_ERROR>>, ok |-> TRUE]>>

----------------------------------------------------------------------------
(* Advertising *)

\* C25: whenever the server has no connection and is not shutting down, the
\* peripheral advertises; in particular after every disconnect event
C25_AdvertisingAgain ==
    (~is_connected /\ ~shutdown_requested) => advertising

----------------------------------------------------------------------------
(* The destination of an upload *)

\* C26: after FileInfo(path) is answered with success, for a path with
\* directory components, the session's destination is the path under /sd
\* with those components, its parent is a directory and the file there is
\* empty
C26_DestinationPreserved ==
    (/\ WriteTo("start_file_transfer")
     /\ HasSlash(last.call.arg)
     /\ out = <<[data |-> <<CMD_FILE_INFO, STATUS_OK>>, ok |-> TRUE]>>)
        => /\ current_path = Rooted(last.call.arg)
           /\ IsDir(Volume, DirPart(current_path))
           /\ IsFile(Volume, current_path)
           /\ files[current_path] = <<>>

\* the path end_file_transfer renames the upload to
FinalPath == DirPart(up.path) \o <<SL>> \o Decode(last.call.arg)

\* C27: after an upload in which nothing fails, ended by a FileEnd that
\* carries an original filename, the file <directory of the destination>/
\* <original filename> holds exactly the uploaded bytes, also when a file of
\* that name was there and when the name is the one of the destination
C27_RenameOverwrites ==
    (/\ up.st = "ended"
     /\ last.call.arg # <<>>
     /\ DecodeOk(last.call.arg))
        => /\ Delivered(1, <<CMD_FILE_END, STATUS_OK>>
                              \o PackLE32(Len(up.data)))
           /\ IsFile(Volume, FinalPath)
           /\ files[FinalPath] = up.data

\* C28: while a session is open, handling a ListDir, MakeDir, Delete or
\* DeleteDir leaves the file at the session's destination in place, with
\* the bytes it had
C28_DestinationUntouched ==
    [][(/\ current_file # NoFile
        /\ last'.ev = "write"
        /\ last'.call.handler \in {"list_directory", "make_directory",
                                    "delete_file", "delete_directory"})
          => /\ current_path' = current_path
             /\ IsFile(Volume', current_path)
             /\ files'[current_path] = files[current_path]]_vars

----------------------------------------------------------------------------
(* The end of upload_file *)

\* C29: when upload_file has returned after its FileInfo was answered with
\* success, whatever it returned, the server holds no open session
C29_AbandonDiscards ==
    (/\ cl.op = "upload_file"
     /\ cl.pc = "returned"
     /\ Len(cl.responses) >= 1
     /\ StepOk(CMD_FILE_INFO, cl.responses[1]))
        => current_file = NoFile

----------------------------------------------------------------------------
(* The operations on every content of the response buffer *)

\* the longest response buffer of the runs over every content
MaxBuffer == 2

\* a byte that is not UTF-8 on its own: a lead byte without its continuation
BadByte == 200

\* the bytes of those buffers while the answer to this command is awaited:
\* the status bytes, the command byte, the byte of another command and a byte
\* that cannot be decoded
BufferBytes(command) ==
    {STATUS_OK, STATUS_ERROR, BadByte, command, (command % 7) + 1}

Prefixes(s) == {SubSeq(s, 1, n) : n \in 0..Len(s)}

\* the listing of path with a directory and the one-byte file b, in the format
\* list_directory parses: command, path, 0, then type, size and name, 0
ListingOf(path, name) ==
    <<CMD_LIST_DIR>> \o path \o <<0>>
    \o <<1>> \o PackLE32(0) \o name \o <<0>>
    \o <<0>> \o PackLE32(1) \o Encode(Name_b) \o <<0>>

\* the contents of the response buffer when send_command returns it: every
\* short buffer, and the listings, whole and truncated, with a path or a name
\* that is or is not UTF-8
Buffers(command) ==
    UNION {[1..n -> BufferBytes(command)] : n \in 0..MaxBuffer}
    \cup Prefixes(ListingOf(Encode(Name_d), Encode(Name_a)))
    \cup Prefixes(ListingOf(Encode(Name_d), <<BadByte>>))
    \cup Prefixes(ListingOf(<<BadByte>>, Encode(Name_a)))

\* how the write and the wait of send_command go
Transports == {"ok", "no_tx_char", "write_error", "timeout"}

\* what send_command returns: the buffer, or bytearray() when there is no TX
\* characteristic, when the write raises and when the wait times out
send_command_returns(buffer, transport) ==
    IF transport = "ok" THEN buffer ELSE <<>>

\* an operation has been started and has written its first command
InitBuffer ==
    /\ is_connected = TRUE
    /\ conn_handle \in Handles
    /\ shutdown_requested = FALSE
    /\ current_file = NoFile
    /\ current_path = <<>>
    /\ bytes_received = 0
    /\ files = <<>>
    /\ dirs = {Root, SD}
    /\ out = <<>>
    /\ dbg = ""
    /\ attempts = <<>>
    /\ display = "Connected"
    /\ ble_active = TRUE
    /\ advertising = FALSE
    /\ last = [exc |-> FALSE, ev |-> "connect", cmd |-> NoCommand,
               had |-> FALSE, fault |-> FALSE,
               openable |-> FALSE, call |-> [handler |-> "none", arg |-> <<>>]]
    /\ up = NoUpload
    /\ received = <<>>
    /\ normalized = NoPath
    /\ phase = "none"
    /\ tx = NoSend
    /\ air = <<>>
    /\ response_buffer = <<>>
    /\ \E o \in ClientOperations :
          LET first == FirstCommand(o.op, o.arg)
              c0 == [IdleClient EXCEPT !.op = o.op, !.arg = o.arg,
                                       !.chunks = o.chunks, !.n = 1]
          IN cl = send_command(c0, first.opcode, first.payload)
    /\ rx = <<>>
    /\ late = <<>>
    /\ served = NothingSent

\* send_command returns with this buffer, or without it, and the operation
\* goes on: it ends with a result or writes its next command
ReturnBuffer(buffer, transport) ==
    /\ cl.pc = "wait"
    /\ response_buffer' = buffer
    /\ cl' = Returned(cl, send_command_returns(buffer, transport))
    /\ UNCHANGED <<is_connected, conn_handle, shutdown_requested, current_file,
                   current_path, bytes_received, files, dirs, out, dbg,
                   attempts, display, ble_active, advertising, last, up,
                   received, normalized, phase, tx, air, rx, late, served>>

NextBuffer ==
    \E buffer \in Buffers(LastCommand(cl)) : \E transport \in Transports :
        ReturnBuffer(buffer, transport)

SpecBuffer == InitBuffer /\ [][NextBuffer]_vars

\* the response the operation got last
LastResponse == cl.responses[Len(cl.responses)]

\* C30: no exception is ever on its way out of an operation; an operation that
\* has returned has returned True or False, list_directory {} or a listing;
\* and on an empty response, a single byte, a wrong opcode or an error status
\* the value is the failure value
C30_ExplicitResult ==
    /\ cl.result.kind # "raised"
    /\ cl.pc = "returned"
          => /\ cl.responses # <<>>
             /\ cl.op = "list_directory"
                   => cl.result.kind \in {"listing", "empty"}
             /\ cl.op # "list_directory"
                   => cl.result.kind \in {"True", "False"}
             /\ (\/ Len(LastResponse) <= 1
                 \/ LastResponse[1] # LastCommand(cl)
                 \/ cl.op # "list_directory" /\ LastResponse[2] # STATUS_OK)
                   => cl.result \in {ResultFalse, ResultEmpty}

\* an upload whose FileInfo was answered with success and whose FileData was
\* answered with the command byte alone has returned False
C30_Witness ==
    /\ cl.op = "upload_file"
    /\ cl.pc = "returned"
    /\ cl.responses = <<<<CMD_FILE_INFO, STATUS_OK>>, <<CMD_FILE_DATA>>>>
    /\ response_buffer = <<CMD_FILE_DATA>>
    /\ cl.result = ResultFalse

----------------------------------------------------------------------------
(* The correlation of responses and commands *)

\* the concatenations of the first n notifications the server delivered in
\* its last event
AnswerPrefixes ==
    LET sent == DeliveredData(out)
    IN {Flatten(SubSeq(sent, 1, n)) : n \in 0..Len(sent)}

\* C31: the response send_command returned last, while the server has handled
\* no later command, is made of notifications the server sent for that very
\* command, in order from the first one
C31_ResponseCorrelated ==
    (/\ cl.responses # <<>>
     /\ Len(served.frames) = Len(cl.responses)
     /\ Len(served.frames) >= 1)
        => LastResponse \in AnswerPrefixes

----------------------------------------------------------------------------
(* The session and the destination file *)

\* C32: while a session is open, bytes_received is the total length of the
\* FileData payloads handled since the FileInfo that opened it and the file at
\* current_path holds those payloads one after the other; while no session is
\* open bytes_received is 0 and current_path is empty
C32_SessionAccounting ==
    /\ current_file # NoFile
          => /\ bytes_received = Len(Flatten(received))
             /\ IsFile(Volume, current_path)
             /\ files[current_path] = Flatten(received)
    /\ current_file = NoFile
          => /\ bytes_received = 0
             /\ current_path = <<>>

\* the one notify attempt of a FileInfo that was rejected
IsInfoError(log) ==
    Len(log) = 1 /\ log[1].data = <<CMD_FILE_INFO, STATUS_ERROR>>

\* C33: a FileInfo that meets an open session, or whose destination is a
\* directory, is answered with the error response alone and leaves the
\* handle, the destination path, the byte counter and the filesystem as they
\* were; and when only FileData commands followed the rejection, a FileEnd
\* that succeeds leaves the payloads of the session at its destination and
\* reports their number
C33_RejectionChangesNothing ==
    [][/\ (/\ last'.ev = "write"
           /\ last'.call.handler = "start_file_transfer"
           /\ \/ current_file # NoFile
              \/ IsDir(Volume, TransferPath(last'.call.arg)))
          => /\ IsInfoError(out')
             /\ UNCHANGED <<current_file, current_path, bytes_received,
                            files, dirs, received>>
       /\ (/\ phase = "info_rejected"
           /\ phase' = "end_ok_after_rejection"
           /\ last'.call.arg = <<>>
           /\ IsFile(Volume, current_path))
          => /\ files'[current_path] = Flatten(received)
             /\ dirs' = dirs
             /\ DOMAIN files' = DOMAIN files
             /\ out' = <<[data |-> <<CMD_FILE_END, STATUS_OK>>
                                   \o PackLE32(Len(Flatten(received))),
                          ok |-> TRUE]>>]_vars

\* a session took a payload, a FileInfo for another destination was rejected,
\* a second payload followed and the FileEnd succeeded: the file holds both
C33_Witness ==
    /\ phase = "end_ok_after_rejection"
    /\ WriteTo("end_file_transfer")
    /\ last.call.arg = <<>>
    /\ current_file = NoFile
    /\ \E p \in DOMAIN files : files[p] = <<7, 8>>
    /\ Delivered(1, <<CMD_FILE_END, STATUS_OK>> \o PackLE32(2))

\* the one notification of a FileData that succeeded
DataSuccess == <<[data |-> <<CMD_FILE_DATA, STATUS_OK>>, ok |-> TRUE]>>

\* C34: a FileData that meets an open session and is not answered with a
\* success response that reached the link ends the session: no handle, no
\* destination path, counter 0; and the FileData and FileEnd commands that
\* follow it are each answered with the error response alone and change
\* neither the session nor the filesystem
C34_FailedDataDiscards ==
    [][/\ (/\ last'.ev = "write"
           /\ last'.call.handler = "receive_file_data"
           /\ current_file # NoFile
           /\ out' # DataSuccess)
          => /\ current_file' = NoFile
             /\ current_path' = <<>>
             /\ bytes_received' = 0
       /\ phase' = "rejected_after_data_failed"
          => /\ Len(out') = 1
             /\ out'[1].data = <<last'.cmd.opcode, STATUS_ERROR>>
             /\ current_file' = NoFile
             /\ UNCHANGED <<current_file, current_path, bytes_received,
                            files, dirs>>]_vars

\* the write of a FileData failed after a first payload was stored, and the
\* FileEnd that followed was rejected
C34_Witness ==
    /\ phase = "rejected_after_data_failed"
    /\ WriteTo("end_file_transfer")
    /\ ~last.had
    /\ current_file = NoFile
    /\ out = <<[data |-> <<CMD_FILE_END, STATUS_ERROR>>, ok |-> TRUE]>>
    /\ \E p \in DOMAIN files : files[p] = <<7>>

----------------------------------------------------------------------------
(* One response for each command *)

\* the notify attempts are the chunks of one listing of dir: they start with
\* the command byte, the path and its terminator, and every chunk but the
\* last is full
IsChunkSequence(log, dir) ==
    /\ log # <<>>
    /\ StartsWith(Flatten(DeliveredData(log)),
                  <<CMD_LIST_DIR>> \o Encode(dir) \o <<0>>)
    /\ \A k \in 1..(Len(log) - 1) : Len(log[k].data) = CHUNK_SIZE

\* the notify attempts are one status response to the command
IsStatusResponse(log, command) ==
    /\ Len(log) = 1
    /\ Len(log[1].data) >= 2
    /\ log[1].data[1] = command
    /\ log[1].data[2] \in {STATUS_OK, STATUS_ERROR}

\* the commands C35 speaks of: a known opcode with a payload that is not empty
\* and, where it is a path, is UTF-8; ListDir and FileEnd with any payload
InScope(cmd) ==
    /\ cmd.opcode \in 1..7
    /\ \/ cmd.opcode \in {CMD_LIST_DIR, CMD_FILE_END}
       \/ cmd.opcode = CMD_FILE_DATA /\ cmd.payload # <<>>
       \/ cmd.payload # <<>> /\ DecodeOk(cmd.payload)

\* C35: when no notify attempt of the event failed, the server has answered
\* such a command with one status response or, for ListDir, with one error
\* response or the chunks of one listing
C35_OneResponse ==
    (/\ last.ev = "write"
     /\ InScope(last.cmd)
     /\ \A k \in 1..Len(out) : out[k].ok)
        => IF last.cmd.opcode = CMD_LIST_DIR
           THEN \/ IsStatusResponse(out, CMD_LIST_DIR)
                   /\ out[1].data = <<CMD_LIST_DIR, STATUS_ERROR>>
                \/ /\ last.call.handler = "list_directory"
                   /\ IsChunkSequence(out, Rooted(last.call.arg))
           ELSE IsStatusResponse(out, last.cmd.opcode)

----------------------------------------------------------------------------
(* Retries of the responses *)

\* attempt k of the event is the last of MAX_RETRIES failed attempts to send
\* the same data
RetriesUsedUp(log, k) ==
    /\ k >= MAX_RETRIES
    /\ \A j \in (k - MAX_RETRIES + 1)..k :
          ~log[j].ok /\ log[j].data = log[k].data

\* C36: every notify attempt that failed is followed by another attempt to
\* send the same data, unless it was the last of MAX_RETRIES failed attempts;
\* and a FileData whose acknowledgement failed once leaves the session open
C36_StatusRetried ==
    last.ev = "write"
        => /\ \A k \in 1..Len(out) :
                 ~out[k].ok
                    => \/ k < Len(out) /\ out[k + 1].data = out[k].data
                       \/ RetriesUsedUp(out, k)
           /\ (/\ last.call.handler = "receive_file_data"
               /\ last.had
               /\ Cardinality({k \in 1..Len(out) : ~out[k].ok}) = 1)
                 => current_file # NoFile

----------------------------------------------------------------------------
(* The normalization of paths, for any path *)

\* the longest path of the runs over every path
MaxPath == 5

\* the characters of those paths: "/", "s", "d", "x"
PathChars == {SL, 115, 100, 120}

\* the handlers that normalize the path they are given
PathHandlers ==
    {"list_directory", "make_directory", "delete_file", "delete_directory",
     "start_file_transfer"}

\* the path a handler works on for the path it is given
Normalize(handler, path) ==
    IF handler = "start_file_transfer" THEN TransferPath(path)
    ELSE Rooted(path)

\* a handler has been called with a path that is not empty
InitPath ==
    /\ is_connected = TRUE
    /\ conn_handle \in Handles
    /\ shutdown_requested = FALSE
    /\ current_file = NoFile
    /\ current_path = <<>>
    /\ bytes_received = 0
    /\ files = <<>>
    /\ dirs = {Root, SD}
    /\ out = <<>>
    /\ dbg = ""
    /\ attempts = <<>>
    /\ display = "Connected"
    /\ ble_active = TRUE
    /\ advertising = FALSE
    /\ last = [exc |-> FALSE, ev |-> "connect", cmd |-> NoCommand,
               had |-> FALSE, fault |-> FALSE,
               openable |-> FALSE, call |-> [handler |-> "none", arg |-> <<>>]]
    /\ up = NoUpload
    /\ received = <<>>
    /\ \E h \in PathHandlers, p \in SeqsUpTo(PathChars, MaxPath) \ {<<>>} :
          normalized = [path |-> p, handler |-> h, st |-> "given",
                        into |-> <<>>]
    /\ phase = "none"
    /\ tx = NoSend
    /\ air = <<>>
    /\ response_buffer = <<>>
    /\ cl = IdleClient
    /\ rx = <<>>
    /\ late = <<>>
    /\ served = NothingSent

\* the handler normalizes its path
NormalizePath ==
    /\ normalized.st = "given"
    /\ normalized' =
          [normalized EXCEPT
              !.st = "done",
              !.into = Normalize(normalized.handler, normalized.path)]
    /\ UNCHANGED <<is_connected, conn_handle, shutdown_requested, current_file,
                   current_path, bytes_received, files, dirs, out, dbg,
                   attempts, display, ble_active, advertising, last, up,
                   received, phase, tx, air, response_buffer, cl, rx, late,
                   served>>

NextPath == NormalizePath

SpecPath == InitPath /\ [][NextPath]_vars

\* /sd or a path below /sd
InRoot(p) == p = SD \/ StartsWith(p, SD \o <<SL>>)

\* C37: the path a handler works on is /sd or lies below /sd, and normalizing
\* it again gives the same path
C37_InsideRoot ==
    normalized.st = "done"
        => /\ InRoot(normalized.into)
           /\ Normalize(normalized.handler, normalized.into)
                 = normalized.into

----------------------------------------------------------------------------
(* How a session comes to be open *)

\* the one notification of a FileInfo that succeeded
InfoSuccess == <<[data |-> <<CMD_FILE_INFO, STATUS_OK>>, ok |-> TRUE]>>

\* C38: a session becomes open only in a FileInfo whose one notify attempt is
\* the success response and reached the link, and then it is open on the
\* destination of that FileInfo with the counter at 0; a FileInfo that met no
\* session and was not answered that way leaves no session, no destination
\* path and the counter at 0
C38_OpenOnlyWhenAnswered ==
    [][/\ (current_file = NoFile /\ current_file' # NoFile)
          => /\ last'.ev = "write"
             /\ last'.call.handler = "start_file_transfer"
             /\ out' = InfoSuccess
             /\ current_path' = TransferPath(last'.call.arg)
             /\ current_file' = <<current_path'>>
             /\ bytes_received' = 0
       /\ (/\ last'.ev = "write"
           /\ last'.call.handler = "start_file_transfer"
           /\ current_file = NoFile
           /\ out' # InfoSuccess)
          => /\ current_file' = NoFile
             /\ current_path' = <<>>
             /\ bytes_received' = 0]_vars

\* the destination was opened, the success response could not be sent, and
\* no session is open
C38_Witness ==
    /\ WriteTo("start_file_transfer")
    /\ ~last.had
    /\ last.openable
    /\ Len(out) = 2
    /\ out[1] = [data |-> <<CMD_FILE_INFO, STATUS_OK>>, ok |-> FALSE]
    /\ out[2].data = <<CMD_FILE_INFO, STATUS_ERROR>>
    /\ IsFile(Volume, TransferPath(last.call.arg))
    /\ current_file = NoFile
    /\ current_path = <<>>

----------------------------------------------------------------------------
(* The events that arrive during shutdown *)

\* the connect, disconnect and write events of ble_irq
BleEvents == {"connect", "disconnect", "write"}

\* C39: once shutdown is requested it stays requested; a BLE event that
\* arrives then runs no handler, makes no notify attempt and leaves the
\* connection state, the session, the filesystem, the display and the
\* advertising as they were; no step turns advertising back on; the shutdown
\* sequence stops the radio and leaves no session, and none is open afterwards
C39_EventsIgnoredDuringShutdown ==
    [][/\ shutdown_requested => shutdown_requested'
       /\ (shutdown_requested /\ last'.ev \in BleEvents)
          => /\ last'.call.handler = "none"
             /\ last'.cmd = NoCommand
             /\ UNCHANGED <<is_connected, conn_handle, current_file,
                            current_path, bytes_received, files, dirs, out,
                            attempts, display, advertising, ble_active,
                            received>>
       /\ (shutdown_requested /\ ~advertising) => ~advertising'
       /\ last'.ev = "stopped"
          => /\ shutdown_requested
             /\ ~ble_active'
             /\ ~advertising'
       /\ ~ble_active'
          => /\ current_file' = NoFile
             /\ current_path' = <<>>
             /\ bytes_received' = 0]_vars

\* a write arrived during shutdown while a session was open on a connected
\* link, and the session is as it was
C39_Witness ==
    /\ shutdown_requested
    /\ ble_active
    /\ is_connected
    /\ last.ev = "write"
    /\ last.had
    /\ current_file # NoFile
    /\ bytes_received > 0
    /\ IsFile(Volume, current_path)

====
